---- MODULE Spec2Model ----
(***************************************************************************)
(* A model of the CHIP-8 emulator core: the memory unit (mmu.rs), the CPU  *)
(* opcode engine (cpu.rs) and the capabilities it drives (window.rs,       *)
(* audio.rs).                                                              *)
(*                                                                         *)
(* Representation notes.                                                   *)
(*  - memory (Vec<u8> of MEM_SIZE bytes) is kept as the finite map of its  *)
(*    non-zero bytes; ByteAt reads it (0 elsewhere).  The map is canonical *)
(*    (a zero byte is never stored), so equal vectors are equal maps.      *)
(*  - buffer (Vec<u32> of BUFFER_SIZE pixels over {PIXEL_LO, PIXEL_HI}) is *)
(*    kept as the set of pixel indices that hold PIXEL_HI.                 *)
(*  - Option<T> is a sequence: None is << >>, Some(v) is << v >>.          *)
(*  - A panic is a terminal status; the fields keep the values they had    *)
(*    when the panic was raised.                                           *)
(***************************************************************************)
EXTENDS Integers, Sequences, FiniteSets, TLC

VARIABLES
    file,             \* the bytes of the program file named by file_path
    memory,           \* Chip8Mmu.memory
    registers,        \* Cpu.registers
    index,            \* Cpu.index
    program_counter,  \* Cpu.program_counter
    delay_timer,      \* Cpu.delay_timer
    sound_timer,      \* Cpu.sound_timer
    stack,            \* Cpu.stack
    key_latch,        \* Cpu.key_latch
    buffer,           \* MiniFbWindow.buffer
    is_dirty,         \* MiniFbWindow.is_dirty
    is_paused,        \* Chip8Audio.is_paused
    keys_down,        \* the keys of KEY_MAP the keyboard holds down
    is_open,          \* minifb::Window::is_open()
    status,           \* "created", "running", "load_error", "panicked", "exited"
    panic_msg,        \* the message of the panic that ended the run
    panic_args,       \* the values formatted into that message
    last,             \* what the most recent cycle or tick did (audio and
                      \* render: the calls a tick made), and of the
                      \* key-wait in progress or last completed: whether the
                      \* last cycle was an FX0A that held PC (held), the
                      \* ticks run between its cycles (wait_ticks, counted
                      \* up to MaxWaitTicks), the first key it latched
                      \* (first_key) and the key Input reported to the
                      \* latest of its cycles that was given one (seen_key)
    delay_trace,      \* None, or << v, n >>: FX15 last wrote v and n ticks
                      \* (counted up to MaxTicks) have run since
    mmu_last,         \* the most recent direct call of read_u16 / write_u16
                      \* on the memory unit, and how many were made
    driver            \* the timing driver: the time of the current wakeup
                      \* (now), the last-tick marker (last_60hz), where
                      \* the loop is (at): "sleep", "woken" or "ticked",
                      \* and the ticks and cycles run since the wakeup

vars == << file, memory, registers, index, program_counter, delay_timer,
           sound_timer, stack, key_latch, buffer, is_dirty, is_paused,
           keys_down, is_open, status, panic_msg, panic_args, last,
           delay_trace, mmu_last, driver >>

(***************************************************************************)
(* Bounds of the model.                                                    *)
(***************************************************************************)
\* The call stack is a growable VecDeque; calls are explored up to this depth.
MaxStack == 17
\* History counter of 60 Hz ticks since the delay timer was last written.
MaxTicks == 62
\* Direct calls of read_u16 / write_u16 explored before the program is loaded.
MaxMmuCalls == 2
\* The timing driver is followed up to this time.
MaxNow == 12
\* History counter of 60 Hz ticks run during one key-wait.
MaxWaitTicks == 3

(***************************************************************************)
(* Program constants.                                                      *)
(***************************************************************************)
OPCODE_SIZE == 2
REGISTER_SIZE == 16
STACK_SIZE == 16
CARRY_REGISTER == 15
PROGRAM_START == 512
MEM_SIZE == 4096
FONT_SPRITE_HEIGHT == 5
SPRITE_WIDTH == 8
WIDTH == 64
HEIGHT == 32
BUFFER_SIZE == WIDTH * HEIGHT

None == << >>
Some(v) == << v >>

Byte == 0..255

FONT_SET ==
    << 240, 144, 144, 144, 240,   \* 0
        32,  96,  32,  32, 112,   \* 1
       240,  16, 240, 128, 240,   \* 2
       240,  16, 240,  16, 240,   \* 3
       144, 144, 240,  16,  16,   \* 4
       240, 128, 240,  16, 240,   \* 5
       240, 128, 240, 144, 240,   \* 6
       240,  16,  32,  64,  64,   \* 7
       240, 144, 240, 144, 240,   \* 8
       240, 144, 240,  16, 240,   \* 9
       240, 144, 240, 144, 144,   \* A
       224, 144, 224, 144, 224,   \* B
       240, 128, 128, 128, 240,   \* C
       224, 144, 144, 144, 224,   \* D
       240, 128, 240, 128, 240,   \* E
       240, 128, 240, 128, 128 >> \* F

(***************************************************************************)
(* Integer helpers: u8 / uint<12> arithmetic and bitwise operators.        *)
(***************************************************************************)
\* uint<12>::wrapping_add
wrapping_add12(a, b) == (a + b) % MEM_SIZE

\* u8::wrapping_add
wrapping_add8(a, b) == (a + b) % 256

\* u8::overflowing_add: (result, overflow)
overflowing_add(a, b) == << (a + b) % 256, a + b > 255 >>

\* u8::overflowing_sub: (result, overflow)
overflowing_sub(a, b) == << (a - b + 256) % 256, a < b >>

\* bool as u8
as_u8(flag) == IF flag THEN 1 ELSE 0

RECURSIVE BitAnd(_, _)
BitAnd(a, b) ==
    IF a = 0 \/ b = 0 THEN 0
    ELSE (a % 2) * (b % 2) + 2 * BitAnd(a \div 2, b \div 2)

RECURSIVE BitOr(_, _)
BitOr(a, b) ==
    IF a = 0 THEN b
    ELSE IF b = 0 THEN a
    ELSE (IF a % 2 = 1 \/ b % 2 = 1 THEN 1 ELSE 0) + 2 * BitOr(a \div 2, b \div 2)

RECURSIVE BitXor(_, _)
BitXor(a, b) ==
    IF a = 0 THEN b
    ELSE IF b = 0 THEN a
    ELSE ((a + b) % 2) + 2 * BitXor(a \div 2, b \div 2)

(***************************************************************************)
(* Memory unit (mmu.rs).                                                   *)
(***************************************************************************)
\* self.memory[a]
ByteAt(mem, a) == IF a \in DOMAIN mem THEN mem[a] ELSE 0

\* self.memory[a] = d
SetByte(mem, a, d) ==
    IF d = 0
    THEN [b \in (DOMAIN mem) \ {a} |-> mem[b]]
    ELSE [b \in (DOMAIN mem) \cup {a} |-> IF b = a THEN d ELSE mem[b]]

\* Chip8Mmu::new
NewMemory == [a \in 0..(Len(FONT_SET) - 1) |-> FONT_SET[a + 1]]

\* Chip8Mmu::read_u8
read_u8(mem, address) == ByteAt(mem, address)

\* Chip8Mmu::write_u8
write_u8(mem, address, data) == SetByte(mem, address, data)

\* address + u12::new(1): ux's Add debug-asserts that the sum fits and then
\* wraps, so at address 0xFFF a build with debug assertions panics and a
\* build without them wraps to 0.  checked says which build is running.
add_one(address, checked) ==
    IF address + 1 >= MEM_SIZE
    THEN IF checked THEN None ELSE Some((address + 1) % MEM_SIZE)
    ELSE Some(address + 1)

\* read_u16 taking the low byte first.
read_u16_little_endian(mem, address, checked) ==
    LET second == add_one(address, checked) IN
    IF second = None THEN None
    ELSE Some(ByteAt(mem, address) + ByteAt(mem, second[1]) * 256)

\* Chip8Mmu::read_u16: None when the address addition panics
read_u16(mem, address, checked) ==
    LET second == add_one(address, checked) IN
    IF second = None THEN None
    ELSE Some(ByteAt(mem, address) * 256 + ByteAt(mem, second[1]))

\* write_u16 storing the low byte first.
write_u16_low_first(mem, address, data, checked) ==
    LET first == SetByte(mem, address, data % 256)
        second == add_one(address, checked)
    IN IF second = None
       THEN [ok |-> FALSE, memory |-> first]
       ELSE [ok |-> TRUE, memory |-> SetByte(first, second[1], data \div 256)]

\* Chip8Mmu::write_u16: the first byte is stored before the address addition
write_u16(mem, address, data, checked) ==
    LET first == SetByte(mem, address, data \div 256)
        second == add_one(address, checked)
    IN IF second = None
       THEN [ok |-> FALSE, memory |-> first]
       ELSE [ok |-> TRUE, memory |-> SetByte(first, second[1], data % 256)]

\* load_program copying from the byte before PROGRAM_START.
load_program_low_start(mem, bytes) ==
    IF Len(bytes) > MEM_SIZE - PROGRAM_START
    THEN [ok |-> FALSE, memory |-> mem]
    ELSE [ok |-> TRUE,
          memory |->
            LET written == (PROGRAM_START - 1)..(PROGRAM_START + Len(bytes) - 2)
                value(a) == IF a \in written THEN bytes[a - PROGRAM_START + 2]
                            ELSE ByteAt(mem, a)
            IN [a \in {b \in (DOMAIN mem) \cup written : value(b) # 0} |-> value(a)]]

\* load_program copying first and noticing the overflow at the end of memory.
load_program_copy_first(mem, bytes) ==
    LET fits == IF Len(bytes) > MEM_SIZE - PROGRAM_START
                THEN MEM_SIZE - PROGRAM_START ELSE Len(bytes)
        written == PROGRAM_START..(PROGRAM_START + fits - 1)
        value(a) == IF a \in written THEN bytes[a - PROGRAM_START + 1]
                    ELSE ByteAt(mem, a)
    IN [ok |-> Len(bytes) <= MEM_SIZE - PROGRAM_START,
        memory |-> [a \in {b \in (DOMAIN mem) \cup written : value(b) # 0} |-> value(a)]]

\* load_program refusing a file that exactly fills the memory.
load_program_strict(mem, bytes) ==
    IF Len(bytes) >= MEM_SIZE - PROGRAM_START
    THEN [ok |-> FALSE, memory |-> mem]
    ELSE [ok |-> TRUE,
          memory |->
            LET written == PROGRAM_START..(PROGRAM_START + Len(bytes) - 1)
                value(a) == IF a \in written THEN bytes[a - PROGRAM_START + 1]
                            ELSE ByteAt(mem, a)
            IN [a \in {b \in (DOMAIN mem) \cup written : value(b) # 0} |-> value(a)]]

\* Chip8Mmu::load_program, given the bytes of the file: the size check, then
\* the copy loop
load_program(mem, bytes) ==
    IF Len(bytes) > MEM_SIZE - PROGRAM_START
    THEN [ok |-> FALSE, memory |-> mem]
    ELSE [ok |-> TRUE,
          memory |->
            LET written == PROGRAM_START..(PROGRAM_START + Len(bytes) - 1)
                value(a) == IF a \in written THEN bytes[a - PROGRAM_START + 1]
                            ELSE ByteAt(mem, a)
            IN [a \in {b \in (DOMAIN mem) \cup written : value(b) # 0} |-> value(a)]]

(***************************************************************************)
(* Window capability (window.rs).                                          *)
(***************************************************************************)
\* MiniFbWindow::blank_screen
blank_screen == [buffer |-> {}, is_dirty |-> TRUE]

\* The two nested loops of MiniFbWindow::draw, flattened: step k handles
\* row k \div SPRITE_WIDTH and column k % SPRITE_WIDTH of the sprite.
RECURSIVE draw_loop(_, _, _, _, _, _)
draw_loop(buf, collision, x, y, sprite, k) ==
    IF k >= Len(sprite) * SPRITE_WIDTH
    THEN [buffer |-> buf, collision |-> collision]
    ELSE
      LET y_offset == k \div SPRITE_WIDTH
          x_offset == k % SPRITE_WIDTH
          row == sprite[y_offset + 1]
          bit == (row \div (2 ^ (SPRITE_WIDTH - x_offset - 1))) % 2
          pixel_index == x + x_offset + ((y + y_offset) * WIDTH)
      IN IF (x_offset + x) >= WIDTH \/ (y_offset + y) >= HEIGHT
         THEN draw_loop(buf, collision, x, y, sprite, k + 1)
         ELSE IF bit = 1
              THEN IF pixel_index \in buf
                   THEN draw_loop(buf \ {pixel_index}, TRUE, x, y, sprite, k + 1)
                   ELSE draw_loop(buf \cup {pixel_index}, collision, x, y, sprite, k + 1)
              ELSE draw_loop(buf, collision, x, y, sprite, k + 1)

\* draw never reporting a collision.
draw_no_collision(buf, x, y, sprite) ==
    [draw_loop(buf, FALSE, x, y, sprite, 0) EXCEPT !.collision = FALSE]

\* MiniFbWindow::draw
draw(buf, x, y, sprite) == draw_loop(buf, FALSE, x, y, sprite, 0)

\* MiniFbWindow::is_key_pressed: KEY_MAP[key as usize] is an index out of
\* bounds for key > 15 (None); otherwise whether that key is down
is_key_pressed(key) ==
    IF key >= 16 THEN None ELSE Some(key \in keys_down)

\* MiniFbWindow::get_pressed_key: the first key of KEY_MAP that is down
get_pressed_key ==
    IF keys_down = {} THEN None
    ELSE Some(CHOOSE k \in keys_down : \A j \in keys_down : k <= j)

(***************************************************************************)
(* CPU / opcode engine (cpu.rs).                                           *)
(*                                                                         *)
(* A handler is an operator from the 12-bit operand to the effect of the   *)
(* call: the handler's return value next_pc (None = fall through), the     *)
(* fields as the handler leaves them, and panic, the message of the panic  *)
(* it raised ("" when it returned).                                        *)
(***************************************************************************)
\* Cpu::split_xnn
split_xnn(data) == << (data \div 256) % 16, data % 256 >>

\* Cpu::split_xyn
split_xyn(data) == << (data \div 256) % 16, (data \div 16) % 16, data % 16 >>

\* The effect of a handler that changes nothing and falls through.
Same ==
    [next_pc |-> None,
     registers |-> registers,
     index |-> index,
     delay_timer |-> delay_timer,
     sound_timer |-> sound_timer,
     stack |-> stack,
     key_latch |-> key_latch,
     memory |-> memory,
     buffer |-> buffer,
     is_dirty |-> is_dirty,
     panic |-> "",
     panic_args |-> << >>]

\* panic!(msg) raised before the handler changed anything; every panic! of
\* cpu.rs has a literal message and formats no value into it
Panic(msg) == [Same EXCEPT !.panic = msg, !.panic_args = << >>]

\* opcode_0 returning address 0 from an empty stack instead of panicking.
opcode_0_default_return(data) ==
    CASE data = \h0E0 ->
           [Same EXCEPT !.buffer = blank_screen.buffer,
                        !.is_dirty = blank_screen.is_dirty]
      [] data = \h0EE ->
           IF Len(stack) = 0
           THEN [Same EXCEPT !.next_pc = Some(0)]
           ELSE [Same EXCEPT !.next_pc = Some(stack[Len(stack)]),
                             !.stack = SubSeq(stack, 1, Len(stack) - 1)]
      [] OTHER -> Panic("Unhandled machine code routine instruction")

opcode_0(data) ==
    CASE data = \h0E0 ->
           [Same EXCEPT !.buffer = blank_screen.buffer,
                        !.is_dirty = blank_screen.is_dirty]
      [] data = \h0EE ->
           IF Len(stack) = 0
           THEN Panic("Stack underflow!")
           ELSE [Same EXCEPT !.next_pc = Some(stack[Len(stack)]),
                             !.stack = SubSeq(stack, 1, Len(stack) - 1)]
      [] OTHER -> Panic("Unhandled machine code routine instruction")

opcode_1(data) == [Same EXCEPT !.next_pc = Some(data)]

\* opcode_2 pushing the address of the call itself.
opcode_2_push_pc(data) ==
    [Same EXCEPT !.stack = Append(stack, program_counter),
                 !.next_pc = Some(data)]

opcode_2(data) ==
    [Same EXCEPT !.stack = Append(stack, wrapping_add12(program_counter, OPCODE_SIZE)),
                 !.next_pc = Some(data)]

opcode_3(data) ==
    LET reg_index == split_xnn(data)[1]
        value == split_xnn(data)[2]
    IN IF registers[reg_index] = value
       THEN [Same EXCEPT !.next_pc = Some(wrapping_add12(program_counter, OPCODE_SIZE * 2))]
       ELSE Same

opcode_4(data) ==
    LET reg_index == split_xnn(data)[1]
        value == split_xnn(data)[2]
    IN IF registers[reg_index] # value
       THEN [Same EXCEPT !.next_pc = Some(wrapping_add12(program_counter, OPCODE_SIZE * 2))]
       ELSE Same

opcode_5(data) ==
    LET x == split_xyn(data)[1]
        y == split_xyn(data)[2]
    IN IF registers[x] = registers[y]
       THEN [Same EXCEPT !.next_pc = Some(wrapping_add12(program_counter, OPCODE_SIZE * 2))]
       ELSE Same

opcode_6(data) ==
    LET reg_index == split_xnn(data)[1]
        value == split_xnn(data)[2]
    IN [Same EXCEPT !.registers = [registers EXCEPT ![reg_index] = value]]

\* opcode_7 recording the carry of the addition in VF.
opcode_7_with_carry(data) ==
    LET reg_index == split_xnn(data)[1]
        value == split_xnn(data)[2]
        res == overflowing_add(registers[reg_index], value)
        r1 == [registers EXCEPT ![reg_index] = res[1]]
    IN [Same EXCEPT !.registers = [r1 EXCEPT ![CARRY_REGISTER] = as_u8(res[2])]]

opcode_7(data) ==
    LET reg_index == split_xnn(data)[1]
        value == split_xnn(data)[2]
    IN [Same EXCEPT !.registers =
          [registers EXCEPT ![reg_index] = wrapping_add8(registers[reg_index], value)]]

\* The arms of opcode_8: each gives the register file the arm leaves, its
\* assignments applied in the order of the code.
op_8XY0(regs, x, y) == [regs EXCEPT ![x] = regs[y]]

\* op_8XY1 leaving the carry register as it was.
op_8XY1_keep_flag(regs, x, y) ==
    [regs EXCEPT ![x] = BitOr(regs[x], regs[y])]

op_8XY1(regs, x, y) ==
    LET r1 == [regs EXCEPT ![x] = BitOr(regs[x], regs[y])]
    IN [r1 EXCEPT ![CARRY_REGISTER] = 0]

op_8XY2(regs, x, y) ==
    LET r1 == [regs EXCEPT ![x] = BitAnd(regs[x], regs[y])]
    IN [r1 EXCEPT ![CARRY_REGISTER] = 0]

op_8XY3(regs, x, y) ==
    LET r1 == [regs EXCEPT ![x] = BitXor(regs[x], regs[y])]
    IN [r1 EXCEPT ![CARRY_REGISTER] = 0]

\* op_8XY4 with an off-by-one carry test.
op_8XY4_early_carry(regs, x, y) ==
    LET res == overflowing_add(regs[x], regs[y])
        r1 == [regs EXCEPT ![x] = res[1]]
    IN [r1 EXCEPT ![CARRY_REGISTER] = as_u8(regs[x] + regs[y] >= 255)]

op_8XY4(regs, x, y) ==
    LET res == overflowing_add(regs[x], regs[y])
        r1 == [regs EXCEPT ![x] = res[1]]
    IN [r1 EXCEPT ![CARRY_REGISTER] = as_u8(res[2])]

\* op_8XY5 storing the borrow instead of its negation.
op_8XY5_borrow_flag(regs, x, y) ==
    LET res == overflowing_sub(regs[x], regs[y])
        r1 == [regs EXCEPT ![x] = res[1]]
    IN [r1 EXCEPT ![CARRY_REGISTER] = as_u8(res[2])]

op_8XY5(regs, x, y) ==
    LET res == overflowing_sub(regs[x], regs[y])
        r1 == [regs EXCEPT ![x] = res[1]]
    IN [r1 EXCEPT ![CARRY_REGISTER] = as_u8(~res[2])]

\* op_8XY6 shifting VY into VX, as the original COSMAC interpreter did.
op_8XY6_from_vy(regs, x, y) ==
    LET r1 == [regs EXCEPT ![CARRY_REGISTER] = regs[y] % 2]
    IN [r1 EXCEPT ![x] = r1[y] \div 2]

op_8XY6(regs, x, y) ==
    LET r1 == [regs EXCEPT ![CARRY_REGISTER] = regs[x] % 2]
    IN [r1 EXCEPT ![x] = r1[x] \div 2]

\* op_8XY7 writing the flag first and the result last.
op_8XY7_flag_first(regs, x, y) ==
    LET res == overflowing_sub(regs[y], regs[x])
        r1 == [regs EXCEPT ![CARRY_REGISTER] = as_u8(~res[2])]
    IN [r1 EXCEPT ![x] = res[1]]

op_8XY7(regs, x, y) ==
    LET res == overflowing_sub(regs[y], regs[x])
        r1 == [regs EXCEPT ![x] = res[1]]
    IN [r1 EXCEPT ![CARRY_REGISTER] = as_u8(~res[2])]

op_8XYE(regs, x, y) ==
    LET r1 == [regs EXCEPT ![CARRY_REGISTER] = (regs[x] \div 128) % 2]
    IN [r1 EXCEPT ![x] = (r1[x] * 2) % 256]

opcode_8(data) ==
    LET x == split_xyn(data)[1]
        y == split_xyn(data)[2]
        opcode == split_xyn(data)[3]
    IN CASE opcode = 0 -> [Same EXCEPT !.registers = op_8XY0(registers, x, y)]
         [] opcode = 1 -> [Same EXCEPT !.registers = op_8XY1(registers, x, y)]
         [] opcode = 2 -> [Same EXCEPT !.registers = op_8XY2(registers, x, y)]
         [] opcode = 3 -> [Same EXCEPT !.registers = op_8XY3(registers, x, y)]
         [] opcode = 4 -> [Same EXCEPT !.registers = op_8XY4(registers, x, y)]
         [] opcode = 5 -> [Same EXCEPT !.registers = op_8XY5(registers, x, y)]
         [] opcode = 6 -> [Same EXCEPT !.registers = op_8XY6(registers, x, y)]
         [] opcode = 7 -> [Same EXCEPT !.registers = op_8XY7(registers, x, y)]
         [] opcode = 14 -> [Same EXCEPT !.registers = op_8XYE(registers, x, y)]
         [] OTHER -> Panic("Unhandled register operation")

opcode_9(data) ==
    LET x == split_xyn(data)[1]
        y == split_xyn(data)[2]
    IN IF registers[x] # registers[y]
       THEN [Same EXCEPT !.next_pc = Some(wrapping_add12(program_counter, OPCODE_SIZE * 2))]
       ELSE Same

opcode_a(data) == [Same EXCEPT !.index = data]

\* opcode_b adding V0 in 8 bits, losing the carry into the high nibble.
opcode_b_truncated(data) ==
    [Same EXCEPT !.next_pc =
       Some((data \div 256) * 256 + wrapping_add8(registers[0], data % 256))]

opcode_b(data) == [Same EXCEPT !.next_pc = Some(wrapping_add12(registers[0], data))]

\* opcode_c storing the random byte without the mask.
opcode_c_unmasked(data, random) ==
    LET register_index == split_xnn(data)[1]
    IN [Same EXCEPT !.registers = [registers EXCEPT ![register_index] = random]]

\* random is the byte fastrand::u8(..) returns
opcode_c(data, random) ==
    LET register_index == split_xnn(data)[1]
        bitmask == split_xnn(data)[2]
    IN [Same EXCEPT !.registers =
          [registers EXCEPT ![register_index] = BitAnd(random, bitmask)]]

\* opcode_d reading N + 1 rows, as its comment says.
opcode_d_one_more_row(data) ==
    LET x == split_xyn(data)[1]
        y == split_xyn(data)[2]
        n == split_xyn(data)[3]
        sprite == [i \in 1..(n + 1) |-> read_u8(memory, wrapping_add12(index, i - 1))]
        drawn == draw(buffer, registers[x], registers[y], sprite)
    IN [Same EXCEPT !.registers = [registers EXCEPT ![CARRY_REGISTER] = as_u8(drawn.collision)],
                    !.buffer = drawn.buffer,
                    !.is_dirty = TRUE]

opcode_d(data) ==
    LET x == split_xyn(data)[1]
        y == split_xyn(data)[2]
        n == split_xyn(data)[3]
        sprite == [i \in 1..n |-> read_u8(memory, wrapping_add12(index, i - 1))]
        drawn == draw(buffer, registers[x], registers[y], sprite)
    IN [Same EXCEPT !.registers = [registers EXCEPT ![CARRY_REGISTER] = as_u8(drawn.collision)],
                    !.buffer = drawn.buffer,
                    !.is_dirty = TRUE]

\* opcode_e falling through on a sub-code it does not know.  (The index
\* panic of KEY_MAP[key as usize] names the length of KEY_MAP and the index.)
opcode_e_ignore_unknown(data) ==
    LET x == split_xnn(data)[1]
        opcode == split_xnn(data)[2]
        pressed == is_key_pressed(registers[x])
        skip == [Same EXCEPT !.next_pc = Some(wrapping_add12(program_counter, OPCODE_SIZE * 2))]
    IN IF pressed = None
       THEN [Panic("index out of bounds") EXCEPT
               !.panic_args = << REGISTER_SIZE, registers[x] >>]
       ELSE CASE opcode = \h9E -> IF pressed[1] THEN skip ELSE Same
              [] opcode = \hA1 -> IF ~pressed[1] THEN skip ELSE Same
              [] OTHER -> Same

opcode_e(data) ==
    LET x == split_xnn(data)[1]
        opcode == split_xnn(data)[2]
        pressed == is_key_pressed(registers[x])
        skip == [Same EXCEPT !.next_pc = Some(wrapping_add12(program_counter, OPCODE_SIZE * 2))]
    IN IF pressed = None
       THEN [Panic("index out of bounds") EXCEPT
               !.panic_args = << REGISTER_SIZE, registers[x] >>]
       ELSE CASE opcode = \h9E -> IF pressed[1] THEN skip ELSE Same
              [] opcode = \hA1 -> IF ~pressed[1] THEN skip ELSE Same
              [] OTHER -> Panic("Unhandled key check operation")

\* op_FX0A resolving on the press: the key goes to VX at once, no latch.
op_FX0A_on_press(x) ==
    IF get_pressed_key # None
    THEN [Same EXCEPT !.registers = [registers EXCEPT ![x] = get_pressed_key[1]]]
    ELSE [Same EXCEPT !.next_pc = Some(program_counter)]

\* op_FX0A giving up when no key is down and none is latched.
op_FX0A_no_hold(x) ==
    IF get_pressed_key # None
    THEN [Same EXCEPT !.key_latch = Some(get_pressed_key[1]),
                      !.next_pc = Some(program_counter)]
    ELSE IF key_latch # None
         THEN [Same EXCEPT !.registers = [registers EXCEPT ![x] = key_latch[1]],
                           !.key_latch = None]
         ELSE Same

\* op_FX0A keeping the first key it latched.
op_FX0A_first_key(x) ==
    IF get_pressed_key # None
    THEN [Same EXCEPT !.key_latch = IF key_latch = None
                                    THEN Some(get_pressed_key[1]) ELSE key_latch,
                      !.next_pc = Some(program_counter)]
    ELSE IF key_latch # None
         THEN [Same EXCEPT !.registers = [registers EXCEPT ![x] = key_latch[1]],
                           !.key_latch = None]
         ELSE [Same EXCEPT !.next_pc = Some(program_counter)]

\* op_FX0A latching the pressed key and moving on to the next instruction.
op_FX0A_latch_and_go(x) ==
    IF get_pressed_key # None
    THEN [Same EXCEPT !.key_latch = Some(get_pressed_key[1])]
    ELSE IF key_latch # None
         THEN [Same EXCEPT !.registers = [registers EXCEPT ![x] = key_latch[1]],
                           !.key_latch = None]
         ELSE [Same EXCEPT !.next_pc = Some(program_counter)]

\* op_FX0A giving up once the delay timer has run out.
op_FX0A_until_timeout(x) ==
    IF get_pressed_key # None
    THEN [Same EXCEPT !.key_latch = Some(get_pressed_key[1]),
                      !.next_pc = Some(program_counter)]
    ELSE IF key_latch # None
         THEN [Same EXCEPT !.registers = [registers EXCEPT ![x] = key_latch[1]],
                           !.key_latch = None]
         ELSE IF delay_timer = 0 THEN Same
              ELSE [Same EXCEPT !.next_pc = Some(program_counter)]

\* The FX0A arm of opcode_f
op_FX0A(x) ==
    IF get_pressed_key # None
    THEN [Same EXCEPT !.key_latch = Some(get_pressed_key[1]),
                      !.next_pc = Some(program_counter)]
    ELSE IF key_latch # None
         THEN [Same EXCEPT !.registers = [registers EXCEPT ![x] = key_latch[1]],
                           !.key_latch = None]
         ELSE [Same EXCEPT !.next_pc = Some(program_counter)]

\* The FX33 arm of opcode_f: three write_u8 calls in order
\* op_FX33 writing the units first and the hundreds last.
op_FX33_units_first(x) ==
    LET m1 == write_u8(memory, index, registers[x] % 10)
        m2 == write_u8(m1, wrapping_add12(index, 1), (registers[x] % 100) \div 10)
        m3 == write_u8(m2, wrapping_add12(index, 2), registers[x] \div 100)
    IN [Same EXCEPT !.memory = m3]

op_FX33(x) ==
    LET m1 == write_u8(memory, index, registers[x] \div 100)
        m2 == write_u8(m1, wrapping_add12(index, 1), (registers[x] % 100) \div 10)
        m3 == write_u8(m2, wrapping_add12(index, 2), registers[x] % 10)
    IN [Same EXCEPT !.memory = m3]

\* The loop of the FX55 arm: for i in 0..=x, from i on
RECURSIVE dump_loop(_, _, _)
dump_loop(mem, i, x) ==
    IF i > x THEN mem
    ELSE dump_loop(write_u8(mem, wrapping_add12(index, i), registers[i]), i + 1, x)

\* The loop of the FX65 arm: for i in 0..=x, from i on
RECURSIVE load_loop(_, _, _)
load_loop(regs, i, x) ==
    IF i > x THEN regs
    ELSE load_loop([regs EXCEPT ![i] = read_u8(memory, wrapping_add12(index, i))], i + 1, x)

\* op_FX55 stopping before VX.
op_FX55_exclusive(x) ==
    IF x = 0 THEN Same
    ELSE [Same EXCEPT !.memory = dump_loop(memory, 0, x - 1)]

op_FX55(x) == [Same EXCEPT !.memory = dump_loop(memory, 0, x)]

op_FX65(x) == [Same EXCEPT !.registers = load_loop(registers, 0, x)]

\* op_FX1E recording the overflow of the sum in VF.
op_FX1E_with_carry(x) ==
    [Same EXCEPT !.index = wrapping_add12(index, registers[x]),
                 !.registers = [registers EXCEPT ![CARRY_REGISTER] =
                                  as_u8(index + registers[x] >= MEM_SIZE)]]

op_FX1E(x) == [Same EXCEPT !.index = wrapping_add12(index, registers[x])]

opcode_f(data) ==
    LET x == split_xnn(data)[1]
        opcode == split_xnn(data)[2]
    IN CASE opcode = \h07 ->
              [Same EXCEPT !.registers = [registers EXCEPT ![x] = delay_timer]]
         [] opcode = \h0A -> op_FX0A(x)
         [] opcode = \h15 -> [Same EXCEPT !.delay_timer = registers[x]]
         [] opcode = \h18 -> [Same EXCEPT !.sound_timer = registers[x]]
         [] opcode = \h1E -> op_FX1E(x)
         [] opcode = \h29 ->
              [Same EXCEPT !.index = FONT_SPRITE_HEIGHT * registers[x]]
         [] opcode = \h33 -> op_FX33(x)
         [] opcode = \h55 -> op_FX55(x)
         [] opcode = \h65 -> op_FX65(x)
         [] OTHER -> Panic("Unhandled register operation")

\* Cpu::FUNC_MAP[family](self, data)
FUNC_MAP(family, data, random) ==
    CASE family = 0 -> opcode_0(data)
      [] family = 1 -> opcode_1(data)
      [] family = 2 -> opcode_2(data)
      [] family = 3 -> opcode_3(data)
      [] family = 4 -> opcode_4(data)
      [] family = 5 -> opcode_5(data)
      [] family = 6 -> opcode_6(data)
      [] family = 7 -> opcode_7(data)
      [] family = 8 -> opcode_8(data)
      [] family = 9 -> opcode_9(data)
      [] family = 10 -> opcode_a(data)
      [] family = 11 -> opcode_b(data)
      [] family = 12 -> opcode_c(data, random)
      [] family = 13 -> opcode_d(data)
      [] family = 14 -> opcode_e(data)
      [] family = 15 -> opcode_f(data)

\* exec_opcode advancing with a plain, non-wrapping addition.
exec_opcode_no_wrap(opcode, random) ==
    LET r == FUNC_MAP(opcode \div 4096, opcode % 4096, random)
    IN IF r.panic # "" THEN [r EXCEPT !.next_pc = Some(program_counter)]
       ELSE IF r.next_pc # None THEN r
       ELSE [r EXCEPT !.next_pc = Some(program_counter + OPCODE_SIZE)]

\* Cpu::exec_opcode: run the handler, then update the program counter
exec_opcode(opcode, random) ==
    LET r == FUNC_MAP(opcode \div 4096, opcode % 4096, random)
    IN IF r.panic # "" THEN [r EXCEPT !.next_pc = Some(program_counter)]
       ELSE IF r.next_pc # None THEN r
       ELSE [r EXCEPT !.next_pc = Some(wrapping_add12(program_counter, OPCODE_SIZE))]

\* Cpu::run_cycle: fetch at the program counter, then exec_opcode
run_cycle(checked, random) ==
    LET opcode == read_u16(memory, program_counter, checked)
    IN IF opcode = None
       THEN [Panic("attempt to add with overflow") EXCEPT !.next_pc = Some(program_counter)]
       ELSE exec_opcode(opcode[1], random)

(***************************************************************************)
(* Audio capability (audio.rs) and the 60 Hz tick.                         *)
(***************************************************************************)
\* Chip8Audio::play
play == [is_paused |-> FALSE, command |-> "play"]

\* Chip8Audio::pause
pause == [is_paused |-> TRUE, command |-> "pause"]

\* MiniFbWindow::render: process::exit(0) when the window is closed
render == IF ~is_open THEN "exit" ELSE "update"

\* run_60hz_cycle leaving the audio alone when the sound timer is 0.
run_60hz_cycle_no_pause ==
    [sound_timer |-> IF sound_timer > 0 THEN sound_timer - 1 ELSE sound_timer,
     delay_timer |-> IF delay_timer > 0 THEN delay_timer - 1 ELSE delay_timer,
     is_paused |-> IF sound_timer > 0 THEN play.is_paused ELSE is_paused,
     command |-> IF sound_timer > 0 THEN play.command ELSE "",
     render |-> render]

\* run_60hz_cycle decrementing the delay timer with a wrapping subtraction.
run_60hz_cycle_wrapping ==
    LET audio == IF sound_timer > 0 THEN play ELSE pause
    IN [sound_timer |-> IF sound_timer > 0 THEN sound_timer - 1 ELSE sound_timer,
        delay_timer |-> (delay_timer + 255) % 256,
        is_paused |-> audio.is_paused,
        command |-> audio.command,
        render |-> render]

\* run_60hz_cycle decrementing the sound timer first and gating on the result.
run_60hz_cycle_gate_after ==
    LET decremented == IF sound_timer > 0 THEN sound_timer - 1 ELSE sound_timer
        audio == IF decremented > 0 THEN play ELSE pause
    IN [sound_timer |-> decremented,
        delay_timer |-> IF delay_timer > 0 THEN delay_timer - 1 ELSE delay_timer,
        is_paused |-> audio.is_paused,
        command |-> audio.command,
        render |-> render]

\* Cpu::run_60hz_cycle
run_60hz_cycle ==
    LET audio == IF sound_timer > 0 THEN play ELSE pause
    IN [sound_timer |-> IF sound_timer > 0 THEN sound_timer - 1 ELSE sound_timer,
        delay_timer |-> IF delay_timer > 0 THEN delay_timer - 1 ELSE delay_timer,
        is_paused |-> audio.is_paused,
        command |-> audio.command,
        render |-> render]

(***************************************************************************)
(* Program files.  A file is the sequence of its bytes.                    *)
(***************************************************************************)
\* The bytes of a sequence of 16-bit instruction words, big-endian.
WordsToBytes(ws) ==
    [i \in 1..(2 * Len(ws)) |->
        IF i % 2 = 1 THEN ws[(i + 1) \div 2] \div 256 ELSE ws[i \div 2] % 256]

\* A file filling memory up to the last address: the words ws at the
\* start, the bytes of tail at their addresses, 0 elsewhere.
FullFile(ws, tail) ==
    [i \in 1..(MEM_SIZE - PROGRAM_START) |->
        LET a == PROGRAM_START + i - 1
        IN IF i <= 2 * Len(ws) THEN WordsToBytes(ws)[i]
           ELSE IF a \in DOMAIN tail THEN tail[a] ELSE 0]

\* wait for a key, then wait again
KeyWaitProgram == WordsToBytes(<< \hF40A, \h1200 >>)

\* a subroutine that calls itself
CallSelfProgram == WordsToBytes(<< \h2200 >>)

\* a return with no call
ReturnProgram == WordsToBytes(<< \h00EE >>)

\* two nested calls, their returns, then a loop
NestedCallProgram ==
    WordsToBytes(<< \h2206, \h00E0, \h1204, \h220A, \h00EE, \h00EE >>)

\* delay timer := 60, sound timer := 2, then a loop
TimerProgram ==
    WordsToBytes(<< \h603C, \hF015, \h6102, \hF118, \h1208 >>)

\* load 5 into VA, add 3
AddImmediateProgram == WordsToBytes(<< \h6A05, \h7A03 >>)

\* one instruction of every family, ending at the last word of memory
FlowProgram ==
    FullFile(<< \h6005, \h3005, \h0000, \h4005, \h5010, \h9010, \h0000,
                \hA005, \hE09E, \hE0A1, \h00E0, \hC103, \hD011, \h8014,
                \hF01E, \hF129, \hF033, \hF155, \hF165, \hF207, \h7AFF,
                \h6000, \hBFFE >>,
             (\hFFE :> \h6A) @@ (\hFFF :> \h05))

\* a jump to the last byte of memory
OddJumpProgram == FullFile(<< \h1FFF >>, (\hFFF :> \h60))

\* V0 = 0x10, one more than the highest key, then skip-if-not-down on V0
KeyRangeProgram == WordsToBytes(<< \h6010, \hE0A1 >>)

\* words without a meaning in families 8, E and F
UndefinedAluProgram == WordsToBytes(<< \h8008 >>)
UndefinedKeyProgram == WordsToBytes(<< \hE09F >>)
UndefinedMiscProgram == WordsToBytes(<< \hF0FF >>)

Programs ==
    { KeyWaitProgram, CallSelfProgram, ReturnProgram, NestedCallProgram,
      TimerProgram, AddImmediateProgram, FlowProgram, OddJumpProgram,
      KeyRangeProgram, UndefinedAluProgram, UndefinedKeyProgram,
      UndefinedMiscProgram }

\* two random bytes, then the add / subtract under test
AddPrograms ==
    { WordsToBytes(<< \hC0FF, \hC1FF, \h8014 >>),
      WordsToBytes(<< \hCF03, \hC1FF, \h8F14 >>),
      WordsToBytes(<< \hC0FF, \hCF03, \h80F4 >>),
      WordsToBytes(<< \hC0FF, \h8004 >>) }

SubPrograms ==
    { WordsToBytes(<< \hC0FF, \hC1FF, \h8015 >>),
      WordsToBytes(<< \hC0FF, \hC1FF, \h8017 >>),
      WordsToBytes(<< \hCF03, \hC1FF, \h8F15 >>),
      WordsToBytes(<< \hCF03, \hC1FF, \h8F17 >>) }

\* add, subtract and reverse subtract with the carry register as VX (a VY
\* with the top and the bottom bit random and a random VF; VF = 2 and a
\* random VY), as both VX and VY, and with V0 as VX
FlagPrograms ==
    { WordsToBytes(<< \hC181, \hCFFF, \h8F14 >>),
      WordsToBytes(<< \hC181, \hCFFF, \h8F15 >>),
      WordsToBytes(<< \hC181, \hCFFF, \h8F17 >>),
      WordsToBytes(<< \h6F02, \hC1FF, \h8F14 >>),
      WordsToBytes(<< \hCFFF, \h8FF4 >>),
      WordsToBytes(<< \hCFFF, \h8FF5 >>),
      WordsToBytes(<< \hCFFF, \h8FF7 >>),
      WordsToBytes(<< \hC181, \hC0FF, \h8014 >>),
      WordsToBytes(<< \hC181, \hC0FF, \h8015 >>),
      WordsToBytes(<< \hC181, \hC0FF, \h8017 >>) }

\* a random byte in VX and a random VY, then the shift under test
ShiftPrograms ==
    { WordsToBytes(<< \hC0FF, \hC103, \h8016 >>),
      WordsToBytes(<< \hC0FF, \hC103, \h801E >>),
      WordsToBytes(<< \hCFFF, \hC103, \h8F16 >>),
      WordsToBytes(<< \hCFFF, \hC103, \h8F1E >>) }

\* VF = 0x5A, random bits in VX and VY, then the bitwise operation or the
\* assignment under test; X = 0xF and Y = 0xF among them
BitwisePrograms ==
    { WordsToBytes(<< \h6F5A, \hC0B5, \hC1D6, \h8010 >>),
      WordsToBytes(<< \h6F5A, \hC0B5, \hC1D6, \h8011 >>),
      WordsToBytes(<< \h6F5A, \hC0B5, \hC1D6, \h8012 >>),
      WordsToBytes(<< \h6F5A, \hC0B5, \hC1D6, \h8013 >>),
      WordsToBytes(<< \hCFB5, \hC1D6, \h8F10 >>),
      WordsToBytes(<< \hCFB5, \hC1D6, \h8F11 >>),
      WordsToBytes(<< \hC0B5, \hCFD6, \h80F3 >>) }

\* VF = 1 and a random byte in VX, then the add-immediate under test
AddImmediatePrograms ==
    { WordsToBytes(<< \h6F01, \hC0FF, \h70FF >>),
      WordsToBytes(<< \h6F01, \hC0FF, \h7003 >>),
      WordsToBytes(<< \hCFFF, \h7F80 >>) }

\* a file one byte longer than the memory above PROGRAM_START
OversizeFile == [i \in 1..(MEM_SIZE - PROGRAM_START + 1) |-> \hAA]

\* Files for the loader: empty, one word, exactly full, one byte too long.
MmuFiles ==
    { << >>, WordsToBytes(<< \h12AB >>),
      FullFile(<< \h13AB >>, (\hFFF :> \hEE)), OversizeFile }

\* The addresses and words of the direct 16-bit accesses: the byte before
\* PROGRAM_START, PROGRAM_START and the last two addresses.
MmuAddresses == {PROGRAM_START - 1, PROGRAM_START, MEM_SIZE - 2, MEM_SIZE - 1}
MmuWords == {\h00FF, \hFE12}

\* I at a one-row sprite (0x01, 0x81 after the code, 0xF0 in the font), a
\* random origin, then the same draw twice
DrawTwicePrograms ==
    { WordsToBytes(<< \hA20A, \hC0FF, \hC1E1, \hD011, \hD011, \h0181 >>),
      WordsToBytes(<< \hA20B, \hC0FF, \hC1E1, \hD011, \hD011, \h0181 >>),
      WordsToBytes(<< \hA000, \hC0FF, \hC1E1, \hD011, \hD011 >>),
      WordsToBytes(<< \hA20B, \hC0FF, \h611F, \hD011, \hD011, \h0181 >>) }

\* four rows read across the end of memory and drawn at (58, 30) twice, then
\* a draw of no row; glyph 0 drawn with VF as both coordinates, twice
DrawRowsPrograms ==
    { FullFile(<< \hAFFE, \h603A, \h611E, \hD014, \hD014, \hD010 >>,
               (\hFFE :> \hFF) @@ (\hFFF :> \h81)),
      WordsToBytes(<< \h6F02, \hA000, \hDFF5, \hDFF5 >>) }

\* I in the middle and at the end of memory, a random byte, then the BCD store
BcdPrograms ==
    { WordsToBytes(<< \hA300, \hC0FF, \hF033 >>),
      WordsToBytes(<< \hAFFF, \hC0FF, \hF033 >>) }

\* random V0 and V1, V2 = 7, then a dump and a load: X = 1 back to back,
\* X = 1 across the end of memory with V0 and V1 cleared in between, X = 0xF
\* and X = 0
DumpLoadPrograms ==
    { WordsToBytes(<< \hA300, \hC00F, \hC1F0, \h6207, \hF155, \hF165 >>),
      WordsToBytes(<< \hAFFF, \hC00F, \hC1F0, \h6207, \hF155, \h6000,
                      \h6100, \hF165 >>),
      WordsToBytes(<< \hA300, \hC0FF, \h6F09, \hFF55, \hFF65 >>),
      WordsToBytes(<< \hA300, \hC0FF, \h6107, \hF055, \hF065 >>) }

\* VF = 1, I low, high and at the end of memory, a random byte, then the add
IndexAddPrograms ==
    { WordsToBytes(<< \h6F01, \hA000, \hC0FF, \hF01E >>),
      WordsToBytes(<< \h6F01, \hAFFF, \hC0FF, \hF01E >>),
      WordsToBytes(<< \hAF80, \hCFFF, \hFF1E >>) }

\* a call, a random byte in V0, then the jump with offset: from the end of
\* memory and from the middle
JumpOffsetPrograms ==
    { WordsToBytes(<< \h2202, \hC0FF, \hBFFE >>),
      WordsToBytes(<< \h2202, \hC0FF, \hB2F0 >>) }

\* VF = 1, then a random byte under a mask: mixed, empty and full; and a
\* random byte into VF itself
RandomPrograms ==
    { WordsToBytes(<< \h6F01, \hC0B5 >>),
      WordsToBytes(<< \h6F01, \h6107, \hC100 >>),
      WordsToBytes(<< \h6F01, \hC3FF >>),
      WordsToBytes(<< \h6F01, \hCFF0 >>) }

\* delay timer := 3, sound timer := 2, then wait for a key, again and again
TimerKeyWaitProgram ==
    WordsToBytes(<< \h6003, \hF015, \h6102, \hF118, \hF40A, \h1208 >>)

\* a key-wait into V4, a key-wait into V5, and back
TwoKeyWaitProgram == WordsToBytes(<< \hF40A, \hF50A, \h1200 >>)

\* The keys the keyboard model presses.
KeySample == {5, 8}

(***************************************************************************)
(* The state machine.                                                      *)
(***************************************************************************)
\* Chip8Mmu::new, MiniFbWindow::new, Chip8Audio::new and Cpu::new, with the
\* program file chosen among files
InitWith(files) ==
    /\ file \in files
    /\ memory = NewMemory
    /\ registers = [i \in 0..(REGISTER_SIZE - 1) |-> 0]
    /\ index = 0
    /\ program_counter = PROGRAM_START
    /\ delay_timer = 0
    /\ sound_timer = 0
    /\ stack = << >>
    /\ key_latch = None
    /\ buffer = {}
    /\ is_dirty = FALSE
    /\ is_paused = TRUE
    /\ keys_down = {}
    /\ is_open = TRUE
    /\ status = "created"
    /\ panic_msg = ""
    /\ panic_args = << >>
    /\ mmu_last = [call |-> "", address |-> 0, data |-> 0, result |-> None,
                   calls |-> 0]
    /\ driver = [now |-> 0, last_60hz |-> 0, at |-> "sleep", ticks |-> 0,
                 cycles |-> 0]
    /\ last = [step |-> "new", opcode |-> None, pc |-> PROGRAM_START,
               key |-> None, audio |-> "", render |-> "", held |-> FALSE,
               wait_ticks |-> 0, first_key |-> None, seen_key |-> None]
    /\ delay_trace = None

Init == InitWith(Programs)

\* mmu.load_program(file_path) before the run loop starts
LoadProgram ==
    /\ status = "created"
    /\ LET r == load_program(memory, file)
       IN /\ memory' = r.memory
          /\ status' = IF r.ok THEN "running" ELSE "load_error"
    /\ last' = [last EXCEPT !.step = "load"]
    /\ UNCHANGED << file, driver, panic_args, mmu_last, registers, index,
                    program_counter, delay_timer, sound_timer, stack,
                    key_latch, buffer, is_dirty, is_paused, keys_down,
                    is_open, panic_msg, delay_trace >>

\* The byte fastrand::u8(..) can return in this cycle (only CXNN draws one).
RandomChoices ==
    IF ByteAt(memory, program_counter) \div 16 = 12 THEN Byte ELSE {0}

\* The builds that behave differently in this cycle: with and without debug
\* assertions when the fetch adds 1 to the last address.
BuildChoices ==
    IF program_counter + 1 >= MEM_SIZE THEN BOOLEAN ELSE {FALSE}

\* The builds that behave differently in a 16-bit access at address.
BuildChoicesAt(address) ==
    IF address + 1 >= MEM_SIZE THEN BOOLEAN ELSE {FALSE}

\* One direct call of Chip8Mmu::write_u16 on the memory unit (as the unit
\* tests of mmu.rs make), before the program is loaded
MmuWriteU16 ==
    /\ status = "created"
    /\ mmu_last.calls < MaxMmuCalls
    /\ \E address \in MmuAddresses, data \in MmuWords :
         \E checked \in BuildChoicesAt(address) :
           LET r == write_u16(memory, address, data, checked)
           IN /\ memory' = r.memory
              /\ status' = IF r.ok THEN "created" ELSE "panicked"
              /\ panic_msg' = IF r.ok THEN "" ELSE "attempt to add with overflow"
              /\ mmu_last' = [call |-> "write_u16", address |-> address,
                              data |-> data, result |-> None,
                              calls |-> mmu_last.calls + 1]
    /\ UNCHANGED << file, driver, panic_args, registers, index, program_counter,
                    delay_timer, sound_timer, stack, key_latch, buffer,
                    is_dirty, is_paused, keys_down, is_open, last,
                    delay_trace >>

\* One direct call of Chip8Mmu::read_u16 on the memory unit
MmuReadU16 ==
    /\ status = "created"
    /\ mmu_last.calls < MaxMmuCalls
    /\ \E address \in MmuAddresses :
         \E checked \in BuildChoicesAt(address) :
           LET r == read_u16(memory, address, checked)
           IN /\ status' = IF r # None THEN "created" ELSE "panicked"
              /\ panic_msg' = IF r # None THEN "" ELSE "attempt to add with overflow"
              /\ mmu_last' = [call |-> "read_u16", address |-> address,
                              data |-> 0, result |-> r,
                              calls |-> mmu_last.calls + 1]
    /\ UNCHANGED << file, driver, panic_args, memory, registers, index,
                    program_counter, delay_timer, sound_timer, stack,
                    key_latch, buffer, is_dirty, is_paused, keys_down,
                    is_open, last, delay_trace >>

\* The fetched word is a key-wait FX0A.
IsKeyWait(opcode) ==
    opcode # None /\ opcode[1] \div 4096 = 15 /\ opcode[1] % 256 = \h0A

\* One call of Cpu::run_cycle: what it does to the machine
CycleStep ==
    /\ status = "running"
    /\ \E checked \in BuildChoices, random \in RandomChoices :
         LET r == run_cycle(checked, random)
             opcode == read_u16(memory, program_counter, checked)
         IN /\ Len(r.stack) <= MaxStack
            /\ memory' = r.memory
            /\ registers' = r.registers
            /\ index' = r.index
            /\ program_counter' = r.next_pc[1]
            /\ delay_timer' = r.delay_timer
            /\ sound_timer' = r.sound_timer
            /\ stack' = r.stack
            /\ key_latch' = r.key_latch
            /\ buffer' = r.buffer
            /\ is_dirty' = r.is_dirty
            /\ status' = IF r.panic # "" THEN "panicked" ELSE "running"
            /\ panic_msg' = r.panic
            /\ panic_args' = r.panic_args
            /\ last' = [step |-> "cycle", opcode |-> opcode,
                        pc |-> program_counter, key |-> get_pressed_key,
                        audio |-> "", render |-> "",
                        held |-> IsKeyWait(opcode) /\ r.next_pc = Some(program_counter),
                        wait_ticks |-> IF IsKeyWait(opcode) /\ last.held
                                       THEN last.wait_ticks ELSE 0,
                        first_key |-> IF key_latch = None /\ r.key_latch # None
                                      THEN r.key_latch ELSE last.first_key,
                        seen_key |-> IF IsKeyWait(opcode) /\ get_pressed_key # None
                                     THEN get_pressed_key ELSE last.seen_key]
            /\ delay_trace' =
                 IF opcode # None /\ r.panic = ""
                    /\ opcode[1] \div 4096 = 15 /\ opcode[1] % 256 = \h15
                 THEN << r.delay_timer, 0 >>
                 ELSE delay_trace
    /\ UNCHANGED << file, is_paused, keys_down, is_open, mmu_last >>

\* One call of Cpu::run_cycle
RunCycle == CycleStep /\ UNCHANGED driver

\* One call of Cpu::run_60hz_cycle: what it does to the machine
TickStep ==
    /\ status = "running"
    /\ LET r == run_60hz_cycle
       IN /\ sound_timer' = r.sound_timer
          /\ delay_timer' = r.delay_timer
          /\ is_paused' = r.is_paused
          /\ status' = IF r.render = "exit" THEN "exited" ELSE "running"
          /\ last' = [step |-> "tick", opcode |-> None, pc |-> program_counter,
                      key |-> None, audio |-> r.command, render |-> r.render,
                      held |-> last.held,
                      wait_ticks |-> IF last.held /\ last.wait_ticks < MaxWaitTicks
                                     THEN last.wait_ticks + 1 ELSE last.wait_ticks,
                      first_key |-> last.first_key, seen_key |-> last.seen_key]
    /\ delay_trace' =
         IF delay_trace = None THEN None
         ELSE << delay_trace[1],
                 IF delay_trace[2] < MaxTicks THEN delay_trace[2] + 1 ELSE MaxTicks >>
    /\ UNCHANGED << file, panic_args, mmu_last, memory, registers, index,
                    program_counter, stack, key_latch, buffer, is_dirty,
                    keys_down, is_open, panic_msg >>

\* One call of Cpu::run_60hz_cycle
Run60hzCycle == TickStep /\ UNCHANGED driver

\* Time in units of 1/120 s: the period of the instruction clock at a
\* frequency of 120 Hz and the period of the 60 Hz tick.
CyclePeriod == 1
TickPeriod == 2

\* By how much the time has advanced when the scheduler wakes the loop: one
\* period, or more when the wakeup is late.
WakeDelays == {CyclePeriod, 2 * CyclePeriod, 5 * CyclePeriod}

\* The scheduler wakes the loop.
DriverWake ==
    /\ status = "running"
    /\ driver.at = "sleep"
    /\ \E d \in WakeDelays :
         /\ driver.now + d <= MaxNow
         /\ driver' = [now |-> driver.now + d, last_60hz |-> driver.last_60hz,
                       at |-> "woken", ticks |-> 0, cycles |-> 0]
    /\ UNCHANGED << file, panic_args, mmu_last, memory, registers, index,
                    program_counter, delay_timer, sound_timer, stack,
                    key_latch, buffer, is_dirty, is_paused, keys_down,
                    is_open, status, panic_msg, last, delay_trace >>

\* The driver running the 60 Hz tick in every state of the wakeup in which
\* the marker is a period behind, also after a tick.
DriverTick_catch_up ==
    /\ driver.at \in {"woken", "ticked"}
    /\ driver.now - driver.last_60hz >= TickPeriod
    /\ TickStep
    /\ driver' = [driver EXCEPT !.last_60hz = @ + TickPeriod,
                                !.at = "ticked", !.ticks = @ + 1]

\* The 60 Hz tick of a wakeup: run when the marker is at least a period
\* behind, and the marker moved on by one period.
DriverTick ==
    /\ driver.at = "woken"
    /\ driver.now - driver.last_60hz >= TickPeriod
    /\ TickStep
    /\ driver' = [driver EXCEPT !.last_60hz = @ + TickPeriod,
                                !.at = "ticked", !.ticks = @ + 1]

\* The instruction cycle of a wakeup, after the tick if one was due.
DriverCycle ==
    /\ \/ driver.at = "ticked"
       \/ driver.at = "woken" /\ driver.now - driver.last_60hz < TickPeriod
    /\ CycleStep
    /\ driver' = [driver EXCEPT !.at = "sleep", !.cycles = @ + 1]

\* The user presses or releases keys.
KeyEvent ==
    /\ status = "running"
    /\ \E keys \in SUBSET KeySample :
         /\ keys # keys_down
         /\ keys_down' = keys
    /\ UNCHANGED << file, driver, panic_args, mmu_last, memory, registers,
                    index, program_counter, delay_timer, sound_timer, stack,
                    key_latch, buffer, is_dirty, is_paused, is_open, status,
                    panic_msg, last, delay_trace >>

\* The user closes the window.
CloseWindow ==
    /\ status = "running"
    /\ is_open
    /\ is_open' = FALSE
    /\ UNCHANGED << file, driver, panic_args, mmu_last, memory, registers,
                    index, program_counter, delay_timer, sound_timer, stack,
                    key_latch, buffer, is_dirty, is_paused, keys_down, status,
                    panic_msg, last, delay_trace >>

Next ==
    \/ LoadProgram
    \/ RunCycle
    \/ Run60hzCycle
    \/ KeyEvent
    \/ CloseWindow

Spec == Init /\ [][Next]_vars

\* The add-with-carry programs, run without ticks and without input.
InitAdd == InitWith(AddPrograms)

NextAdd ==
    \/ LoadProgram
    \/ RunCycle

SpecAdd == InitAdd /\ [][NextAdd]_vars

\* The subtract programs, run without ticks and without input.
InitSub == InitWith(SubPrograms)

NextSub ==
    \/ LoadProgram
    \/ RunCycle

SpecSub == InitSub /\ [][NextSub]_vars

\* The shift programs, run without ticks and without input.
InitShift == InitWith(ShiftPrograms)

NextShift ==
    \/ LoadProgram
    \/ RunCycle

SpecShift == InitShift /\ [][NextShift]_vars

\* The bitwise programs, run without ticks and without input.
InitBitwise == InitWith(BitwisePrograms)

NextBitwise ==
    \/ LoadProgram
    \/ RunCycle

SpecBitwise == InitBitwise /\ [][NextBitwise]_vars

\* The add-immediate programs, run without ticks and without input.
InitAddImmediate == InitWith(AddImmediatePrograms)

NextAddImmediate ==
    \/ LoadProgram
    \/ RunCycle

SpecAddImmediate == InitAddImmediate /\ [][NextAddImmediate]_vars

\* The memory unit on its own: direct 16-bit accesses, then the loader.
InitMmu == InitWith(MmuFiles)

NextMmu ==
    \/ MmuWriteU16
    \/ MmuReadU16
    \/ LoadProgram

SpecMmu == InitMmu /\ [][NextMmu]_vars

\* The draw programs, run without ticks and without input.
InitDraw == InitWith(DrawTwicePrograms \cup DrawRowsPrograms)

NextDraw ==
    \/ LoadProgram
    \/ RunCycle

SpecDraw == InitDraw /\ [][NextDraw]_vars

\* The programs using the index register, run without ticks and without
\* input.
InitIndex == InitWith(BcdPrograms \cup DumpLoadPrograms \cup IndexAddPrograms)

NextIndex ==
    \/ LoadProgram
    \/ RunCycle

SpecIndex == InitIndex /\ [][NextIndex]_vars

\* The jump-with-offset programs, run without ticks and without input.
InitJump == InitWith(JumpOffsetPrograms)

NextJump ==
    \/ LoadProgram
    \/ RunCycle

SpecJump == InitJump /\ [][NextJump]_vars

\* The timer program under the timing driver.
InitDriver == InitWith({TimerProgram, KeyWaitProgram})

NextDriver ==
    \/ LoadProgram
    \/ DriverWake
    \/ DriverTick
    \/ DriverCycle
    \/ KeyEvent

SpecDriver == InitDriver /\ [][NextDriver]_vars

\* The flag programs, run without ticks and without input.
InitFlag == InitWith(FlagPrograms)

NextFlag ==
    \/ LoadProgram
    \/ RunCycle

SpecFlag == InitFlag /\ [][NextFlag]_vars

\* The random-byte programs, run without ticks and without input.
InitRandom == InitWith(RandomPrograms)

NextRandom ==
    \/ LoadProgram
    \/ RunCycle

SpecRandom == InitRandom /\ [][NextRandom]_vars

\* The key-wait programs, run with ticks and with the keyboard.
InitKeyWait ==
    InitWith({KeyWaitProgram, TimerKeyWaitProgram, TwoKeyWaitProgram})

NextKeyWait ==
    \/ LoadProgram
    \/ RunCycle
    \/ Run60hzCycle
    \/ KeyEvent

SpecKeyWait == InitKeyWait /\ [][NextKeyWait]_vars

(***************************************************************************)
(* Properties.                                                             *)
(***************************************************************************)
\* A step that is one CPU cycle / one 60 Hz tick.
IsCycle == last'.step = "cycle" /\ keys_down' = keys_down /\ is_open' = is_open
IsTick == last'.step = "tick" /\ keys_down' = keys_down /\ is_open' = is_open

\* The step is a cycle that fetched a word of this family and low byte.
CycleOf(family, low) ==
    /\ IsCycle
    /\ last'.opcode # None
    /\ last'.opcode[1] \div 4096 = family
    /\ last'.opcode[1] % 256 = low

\* The X and Y nibbles of the word the step fetched.
StepX == (last'.opcode[1] \div 256) % 16
StepY == (last'.opcode[1] \div 16) % 16

\* C1: the key-wait FX0A is press-then-release.  A cycle of FX0A in which
\* Input reports a key k latches k and leaves PC and the registers as they
\* were; a cycle in which Input reports no key while a key is latched writes
\* the latched key to VX, clears the latch and advances PC by 2; between
\* cycles the latch, PC and the registers do not change.
C1_KeyWaitPressThenRelease ==
    [][ /\ CycleOf(15, \h0A) =>
             IF last'.key # None
             THEN /\ key_latch' = last'.key
                  /\ program_counter' = program_counter
                  /\ registers' = registers
             ELSE key_latch # None =>
                  /\ registers' = [registers EXCEPT ![StepX] = key_latch[1]]
                  /\ key_latch' = None
                  /\ program_counter' = (program_counter + 2) % 4096
        /\ ~IsCycle => UNCHANGED << key_latch, program_counter, registers >>
      ]_vars

\* C1 scenario: key 8 was pressed and then released at F40A; V4 = 8, the
\* latch is empty again and PC moved from 0x200 to 0x202.
C1_Witness ==
    /\ last.step = "cycle"
    /\ last.opcode = Some(\hF40A)
    /\ last.pc = \h200
    /\ last.key = None
    /\ registers[4] = 8
    /\ key_latch = None
    /\ program_counter = \h202

\* C2: an unresolved key-wait holds the machine.  From a running state whose
\* PC is at an FX0A word, with an empty latch and no key down, no step of
\* any kind (cycle, tick, key event, window event) changes PC, the
\* registers, the index register, the call stack, the latch or memory.
C2_UnresolvedKeyWaitHolds ==
    [][ ( /\ status = "running"
          /\ program_counter + 1 < MEM_SIZE
          /\ ByteAt(memory, program_counter) \div 16 = 15
          /\ ByteAt(memory, program_counter + 1) = \h0A
          /\ key_latch = None
          /\ keys_down = {} )
        => UNCHANGED << program_counter, registers, index, stack, key_latch, memory >>
      ]_vars

\* C2 witness: a cycle of F40A ran with no key down and nothing latched, and
\* the machine is still at 0x200 with V4 untouched.
C2_Witness ==
    /\ last.step = "cycle"
    /\ last.opcode = Some(\hF40A)
    /\ last.key = None
    /\ key_latch = None
    /\ program_counter = \h200
    /\ registers[4] = 0
    /\ status = "running"

\* C3: the call stack never holds more than STACK_SIZE = 16 return
\* addresses (a call at depth 16 is fatal instead of pushing).
C3_StackAtMost16 == Len(stack) <= STACK_SIZE

\* C4: a return 00EE with an empty call stack panics with a stack underflow,
\* leaves PC and the stack as they were, and no step follows a panic.
C4_UnderflowIsFatal ==
    [][ /\ (CycleOf(0, \hEE) /\ last'.opcode[1] = \h00EE /\ stack = << >>) =>
             /\ status' = "panicked"
             /\ panic_msg' = "Stack underflow!"
             /\ program_counter' = program_counter
             /\ stack' = << >>
        /\ status = "panicked" => UNCHANGED vars
      ]_vars

\* C4 witness: the run ended in a stack underflow at the 00EE it fetched.
C4_Witness ==
    /\ status = "panicked"
    /\ panic_msg = "Stack underflow!"
    /\ last.opcode = Some(\h00EE)
    /\ program_counter = last.pc
    /\ stack = << >>

\* C5: call and return are LIFO and inverse.  A call 2NNN at PC = p sets
\* PC = NNN and appends (p + 2) mod 4096 to the stack; a return 00EE on a
\* non-empty stack sets PC to the last pushed address and removes it; no
\* other step changes the stack.
C5_CallReturnLifo ==
    [][ /\ (IsCycle /\ last'.opcode # None /\ last'.opcode[1] \div 4096 = 2) =>
             /\ program_counter' = last'.opcode[1] % 4096
             /\ stack' = Append(stack, (program_counter + 2) % 4096)
             /\ Len(stack') = Len(stack) + 1
        /\ (CycleOf(0, \hEE) /\ last'.opcode[1] = \h00EE /\ stack # << >>) =>
             /\ program_counter' = stack[Len(stack)]
             /\ stack' = SubSeq(stack, 1, Len(stack) - 1)
        /\ ~( \/ (IsCycle /\ last'.opcode # None /\ last'.opcode[1] \div 4096 = 2)
              \/ (CycleOf(0, \hEE) /\ last'.opcode[1] = \h00EE) )
             => stack' = stack
      ]_vars

\* C5 witness: in the nested-call program the second return resumed at
\* 0x202, the word after the first call, with the stack empty again.
C5_Witness ==
    /\ file = NestedCallProgram
    /\ last.opcode = Some(\h00EE)
    /\ last.pc = \h208
    /\ program_counter = \h202
    /\ stack = << >>
    /\ status = "running"

\* C6: the timers saturate at 0.  A 60 Hz tick takes exactly 1 from a timer
\* that is > 0 and leaves a timer that is 0 at 0; and once FX15 has written
\* 60 to the delay timer, after n ticks it is 60 - n for n <= 60 and 0 for
\* every n > 60.
C6_TimersSaturate ==
    /\ [][ IsTick =>
             /\ delay_timer' = (IF delay_timer > 0 THEN delay_timer - 1 ELSE 0)
             /\ sound_timer' = (IF sound_timer > 0 THEN sound_timer - 1 ELSE 0)
         ]_vars
    /\ []( (delay_trace # None /\ delay_trace[1] = 60) =>
             delay_timer = (IF delay_trace[2] <= 60 THEN 60 - delay_trace[2] ELSE 0) )

\* C6 witness: the 61st tick after the delay timer was set to 60 has run and
\* the timer is 0.
C6_Witness ==
    /\ delay_trace = << 60, 61 >>
    /\ last.step = "tick"
    /\ delay_timer = 0

\* C7 as stated: after a 60 Hz tick the last Audio command is play exactly
\* when the sound timer is (now) > 0.
C7_GateOnTimerAfterTick ==
    last.step = "tick" => (last.audio = "play" <=> sound_timer > 0)

\* C7 amended: a 60 Hz tick issues play exactly when the sound timer was > 0
\* before the tick (the timer it then decrements), and pause otherwise.
C7_GateOnTimerBeforeTick ==
    [][ IsTick =>
          /\ last'.audio \in {"play", "pause"}
          /\ last'.audio = "play" <=> sound_timer > 0
          /\ is_paused' = (last'.audio = "pause")
      ]_vars

\* C7 witness: a tick issued play and took the sound timer from 1 to 0.
C7_Witness ==
    /\ last.step = "tick"
    /\ last.audio = "play"
    /\ sound_timer = 0
    /\ ~is_paused

\* C8: a cycle that does not panic fetches the big-endian word at PC and
\* sets PC to NNN for a jump or call, to the popped address for a return, to
\* (NNN + V0) mod 4096 for a jump-with-offset, to (PC + 4) mod 4096 for a
\* taken skip, to PC for a blocked key-wait, and to (PC + 2) mod 4096 for
\* every other instruction; no other step changes PC, and PC is 0x200
\* before the first cycle.
C8_ProgramCounterLaw ==
    /\ [][ /\ (IsCycle /\ status' = "running") =>
               LET pc == program_counter
                   op == last'.opcode[1]
                   family == op \div 4096
                   nnn == op % 4096
                   nn == op % 256
                   vx == registers[(op \div 256) % 16]
                   vy == registers[(op \div 16) % 16]
                   skip == \/ family = 3 /\ vx = nn
                           \/ family = 4 /\ vx # nn
                           \/ family = 5 /\ vx = vy
                           \/ family = 9 /\ vx # vy
                           \/ family = 14 /\ nn = \h9E /\ vx \in keys_down
                           \/ family = 14 /\ nn = \hA1 /\ vx \notin keys_down
                   blocked == /\ family = 15 /\ nn = \h0A
                              /\ (keys_down # {} \/ key_latch = None)
               IN /\ op = ByteAt(memory, pc) * 256 + ByteAt(memory, (pc + 1) % 4096)
                  /\ program_counter' =
                       CASE family = 1 \/ family = 2 -> nnn
                         [] op = \h00EE -> stack[Len(stack)]
                         [] family = 11 -> (nnn + registers[0]) % 4096
                         [] skip -> (pc + 4) % 4096
                         [] blocked -> pc
                         [] OTHER -> (pc + 2) % 4096
           /\ ~IsCycle => program_counter' = program_counter
         ]_vars
    /\ [](status = "created" => program_counter = \h200)

\* C8 witness: the fall-through of the word at 0xFFE wrapped PC to 0.
C8_Witness ==
    /\ last.step = "cycle"
    /\ last.opcode = Some(\h6A05)
    /\ last.pc = \hFFE
    /\ program_counter = 0
    /\ status = "running"

\* C9 as stated: after 8XY4, VF is 1 iff a + b > 255 (else 0) and VX holds
\* (a + b) mod 256, for every X.
C9_AddWithCarryAnyX ==
    [][ (IsCycle /\ last'.opcode # None /\ last'.opcode[1] \div 4096 = 8
         /\ last'.opcode[1] % 16 = 4) =>
          LET a == registers[StepX]
              b == registers[StepY]
          IN /\ registers'[CARRY_REGISTER] = (IF a + b > 255 THEN 1 ELSE 0)
             /\ registers'[StepX] = (a + b) % 256
      ]_vars

\* C9 amended: after 8XY4, VF is 1 iff a + b > 255 (else 0) for every X, and
\* VX holds (a + b) mod 256 when X is not the carry register.
C9_AddWithCarry ==
    [][ (IsCycle /\ last'.opcode # None /\ last'.opcode[1] \div 4096 = 8
         /\ last'.opcode[1] % 16 = 4) =>
          LET a == registers[StepX]
              b == registers[StepY]
          IN /\ registers'[CARRY_REGISTER] = (IF a + b > 255 THEN 1 ELSE 0)
             /\ StepX # CARRY_REGISTER => registers'[StepX] = (a + b) % 256
      ]_vars

\* C9 witness: 8014 ran on V0 = 0xFF, V1 = 0x03 and left V0 = 0x02, VF = 1.
C9_Witness ==
    /\ last.step = "cycle"
    /\ last.opcode = Some(\h8014)
    /\ registers[0] = 2
    /\ registers[1] = 3
    /\ registers[CARRY_REGISTER] = 1

\* C10 as stated: after 8XY5, VX = (a - b) mod 256 and VF = 1 iff a >= b;
\* after 8XY7, VX = (b - a) mod 256 and VF = 1 iff b >= a; for every X.
C10_SubtractAnyX ==
    [][ /\ (IsCycle /\ last'.opcode # None /\ last'.opcode[1] \div 4096 = 8
             /\ last'.opcode[1] % 16 = 5) =>
              LET a == registers[StepX]
                  b == registers[StepY]
              IN /\ registers'[StepX] = (a - b + 256) % 256
                 /\ registers'[CARRY_REGISTER] = (IF a >= b THEN 1 ELSE 0)
        /\ (IsCycle /\ last'.opcode # None /\ last'.opcode[1] \div 4096 = 8
             /\ last'.opcode[1] % 16 = 7) =>
              LET a == registers[StepX]
                  b == registers[StepY]
              IN /\ registers'[StepX] = (b - a + 256) % 256
                 /\ registers'[CARRY_REGISTER] = (IF b >= a THEN 1 ELSE 0)
      ]_vars

\* C10 amended: as stated for the flag, for every X; the result is in VX
\* when X is not the carry register.
C10_Subtract ==
    [][ /\ (IsCycle /\ last'.opcode # None /\ last'.opcode[1] \div 4096 = 8
             /\ last'.opcode[1] % 16 = 5) =>
              LET a == registers[StepX]
                  b == registers[StepY]
              IN /\ StepX # CARRY_REGISTER => registers'[StepX] = (a - b + 256) % 256
                 /\ registers'[CARRY_REGISTER] = (IF a >= b THEN 1 ELSE 0)
        /\ (IsCycle /\ last'.opcode # None /\ last'.opcode[1] \div 4096 = 8
             /\ last'.opcode[1] % 16 = 7) =>
              LET a == registers[StepX]
                  b == registers[StepY]
              IN /\ StepX # CARRY_REGISTER => registers'[StepX] = (b - a + 256) % 256
                 /\ registers'[CARRY_REGISTER] = (IF b >= a THEN 1 ELSE 0)
      ]_vars

\* C10 witness: 8015 ran on V0 = 0x01, V1 = 0x02 and left V0 = 0xFF, VF = 0.
C10_Witness ==
    /\ last.step = "cycle"
    /\ last.opcode = Some(\h8015)
    /\ registers[0] = 255
    /\ registers[1] = 2
    /\ registers[CARRY_REGISTER] = 0

\* C11 as stated: for every register index X and every byte v = VX, the
\* right shift 8XY6 leaves VF = v mod 2 and VX = v div 2, and the left shift
\* 8XYE leaves VF = the top bit of v and VX = 2v mod 256.
C11_ShiftAnyX ==
    [][ (IsCycle /\ last'.opcode # None /\ last'.opcode[1] \div 4096 = 8
         /\ last'.opcode[1] % 16 \in {6, 14}) =>
          LET v == registers[StepX]
          IN IF last'.opcode[1] % 16 = 6
             THEN /\ registers'[CARRY_REGISTER] = v % 2
                  /\ registers'[StepX] = v \div 2
             ELSE /\ registers'[CARRY_REGISTER] = v \div 128
                  /\ registers'[StepX] = (v * 2) % 256
      ]_vars

\* C11, amended: for every register index X other than 0xF and every byte
\* v = VX, the right shift 8XY6 leaves VF = v mod 2 and VX = v div 2, and the
\* left shift 8XYE leaves VF = the top bit of v (0 or 1) and VX = 2v mod 256;
\* with X = 0xF the bit is stored first and then shifted, so VF ends as 0
\* after 8FY6 and as twice the top bit of v after 8FYE.  VY is not read: the
\* results depend on v alone and no other register changes.
C11_Shift ==
    [][ (IsCycle /\ last'.opcode # None /\ last'.opcode[1] \div 4096 = 8
         /\ last'.opcode[1] % 16 \in {6, 14}) =>
          LET v == registers[StepX]
              right == last'.opcode[1] % 16 = 6
          IN /\ StepX # CARRY_REGISTER =>
                  /\ registers'[CARRY_REGISTER] =
                       (IF right THEN v % 2 ELSE v \div 128)
                  /\ registers'[StepX] =
                       (IF right THEN v \div 2 ELSE (v * 2) % 256)
             /\ StepX = CARRY_REGISTER =>
                  registers'[CARRY_REGISTER] =
                    (IF right THEN 0 ELSE 2 * (v \div 128))
             /\ \A i \in 0..(REGISTER_SIZE - 1) \ {StepX, CARRY_REGISTER} :
                  registers'[i] = registers[i]
      ]_vars

\* V0 = 0x81 was shifted left with V1 = 3: V0 = 0x02, VF = 1, V1 kept.
C11_Witness ==
    /\ last.step = "cycle" /\ last.opcode = Some(\h801E)
    /\ registers[0] = 2 /\ registers[1] = 3 /\ registers[CARRY_REGISTER] = 1

\* Bit k of the byte v, and whether r is the bitwise combination of a and b
\* that the low nibble n (1 OR, 2 AND, 3 XOR) names.
Bit(v, k) == (v \div (2 ^ k)) % 2

IsBitwise(n, r, a, b) ==
    \A k \in 0..7 :
       Bit(r, k) = CASE n = 1 -> (IF Bit(a, k) + Bit(b, k) >= 1 THEN 1 ELSE 0)
                     [] n = 2 -> (IF Bit(a, k) + Bit(b, k) = 2 THEN 1 ELSE 0)
                     [] n = 3 -> (Bit(a, k) + Bit(b, k)) % 2

\* C12 as stated: 8XY1, 8XY2, 8XY3 store VX OR / AND / XOR VY in VX and set
\* VF to 0 whatever it held; 8XY0 sets VX = VY and leaves VF unchanged.
C12_BitwiseAnyX ==
    [][ (IsCycle /\ last'.opcode # None /\ last'.opcode[1] \div 4096 = 8
         /\ last'.opcode[1] % 16 \in 0..3) =>
          LET n == last'.opcode[1] % 16
          IN IF n = 0
             THEN /\ registers'[StepX] = registers[StepY]
                  /\ registers'[CARRY_REGISTER] = registers[CARRY_REGISTER]
             ELSE /\ IsBitwise(n, registers'[StepX], registers[StepX],
                               registers[StepY])
                  /\ registers'[CARRY_REGISTER] = 0
      ]_vars

\* C12, amended: for X other than 0xF, 8XY1, 8XY2, 8XY3 store VX OR / AND /
\* XOR VY in VX and set VF to 0 whatever it held, and 8XY0 sets VX = VY and
\* leaves VF unchanged; with X = 0xF the bitwise result is replaced by the
\* cleared flag (VF ends 0) and 8FY0 sets VF = VY.  No other register
\* changes.
C12_Bitwise ==
    [][ (IsCycle /\ last'.opcode # None /\ last'.opcode[1] \div 4096 = 8
         /\ last'.opcode[1] % 16 \in 0..3) =>
          LET n == last'.opcode[1] % 16
          IN /\ (n = 0 /\ StepX # CARRY_REGISTER) =>
                  /\ registers'[StepX] = registers[StepY]
                  /\ registers'[CARRY_REGISTER] = registers[CARRY_REGISTER]
             /\ (n = 0 /\ StepX = CARRY_REGISTER) =>
                  registers'[CARRY_REGISTER] = registers[StepY]
             /\ (n # 0 /\ StepX # CARRY_REGISTER) =>
                  IsBitwise(n, registers'[StepX], registers[StepX],
                            registers[StepY])
             /\ n # 0 => registers'[CARRY_REGISTER] = 0
             /\ \A i \in 0..(REGISTER_SIZE - 1) \ {StepX, CARRY_REGISTER} :
                  registers'[i] = registers[i]
      ]_vars

\* 8013 ran on V0 = 0xB5, V1 = 0xD6 with VF = 0x5A: V0 = 0x63 and VF = 0.
C12_Witness ==
    /\ last.step = "cycle" /\ last.opcode = Some(\h8013)
    /\ registers[0] = \h63 /\ registers[1] = \hD6
    /\ registers[CARRY_REGISTER] = 0

\* C13: add-immediate 7XNN sets VX = (VX + NN) mod 256 and does not touch
\* the carry flag: for X other than 0xF, VF after the instruction equals VF
\* before it, also when the addition overflows; no other register changes.
C13_AddImmediate ==
    [][ (IsCycle /\ last'.opcode # None /\ last'.opcode[1] \div 4096 = 7) =>
          LET nn == last'.opcode[1] % 256
          IN /\ registers'[StepX] = (registers[StepX] + nn) % 256
             /\ StepX # CARRY_REGISTER =>
                  registers'[CARRY_REGISTER] = registers[CARRY_REGISTER]
             /\ \A i \in 0..(REGISTER_SIZE - 1) \ {StepX} :
                  registers'[i] = registers[i]
      ]_vars

\* 70FF ran on V0 = 0x02 with VF = 1: V0 = 0x01 and VF is still 1.
C13_Witness ==
    /\ last.step = "cycle" /\ last.opcode = Some(\h70FF)
    /\ registers[0] = 1 /\ registers[CARRY_REGISTER] = 1

\* The step is a cycle of one of the conditional skips 3XNN, 4XNN, 5XY0,
\* 9XY0, EX9E, EXA1, and the condition of that skip in the state before it.
IsSkipCycle ==
    /\ IsCycle
    /\ last'.opcode # None
    /\ \/ last'.opcode[1] \div 4096 \in {3, 4}
       \/ last'.opcode[1] \div 4096 \in {5, 9} /\ last'.opcode[1] % 16 = 0
       \/ last'.opcode[1] \div 4096 = 14 /\ last'.opcode[1] % 256 \in {\h9E, \hA1}

SkipCondition ==
    LET family == last'.opcode[1] \div 4096
        nn == last'.opcode[1] % 256
    IN CASE family = 3 -> registers[StepX] = nn
         [] family = 4 -> registers[StepX] # nn
         [] family = 5 -> registers[StepX] = registers[StepY]
         [] family = 9 -> registers[StepX] # registers[StepY]
         [] family = 14 /\ nn = \h9E -> registers[StepX] \in keys_down
         [] family = 14 /\ nn = \hA1 -> registers[StepX] \notin keys_down

\* C14: a conditional skip sets PC to (PC + 4) mod 4096 exactly when its
\* condition holds and to (PC + 2) mod 4096 otherwise, and changes no
\* register.
C14_ConditionalSkips ==
    [][ IsSkipCycle =>
          /\ program_counter' =
               (IF SkipCondition THEN (program_counter + 4) % MEM_SIZE
                ELSE (program_counter + 2) % MEM_SIZE)
          /\ registers' = registers
      ]_vars

\* The word has no defined meaning: family 0 other than 00E0 / 00EE, family
\* 8 with a low nibble outside {0..7, E}, family E with a low byte other than
\* 9E / A1, family F with a low byte outside the nine defined ones.
IsUndefined(word) ==
    LET family == word \div 4096
    IN \/ family = 0 /\ word \notin {\h00E0, \h00EE}
       \/ family = 8 /\ word % 16 \notin (0..7) \cup {14}
       \/ family = 14 /\ word % 256 \notin {\h9E, \hA1}
       \/ family = 15 /\ word % 256 \notin
             {\h07, \h0A, \h15, \h18, \h1E, \h29, \h33, \h55, \h65}

\* C15: an undefined instruction is fatal and not silently ignored: the
\* cycle that fetches it ends the run in the panicked status with a panic
\* message, changes nothing of the machine and leaves PC at the word; once
\* panicked, nothing executes any more.
C15_UndefinedIsFatal ==
    [][ /\ (IsCycle /\ last'.opcode # None /\ IsUndefined(last'.opcode[1])) =>
             /\ status' = "panicked"
             /\ panic_msg' # ""
             /\ program_counter' = program_counter
             /\ UNCHANGED << memory, registers, index, delay_timer,
                             sound_timer, stack, key_latch, buffer >>
        /\ status = "panicked" => UNCHANGED vars
      ]_vars

\* The run ended at the undefined word E09F it fetched at 0x200.
C15_Witness ==
    /\ status = "panicked"
    /\ panic_msg = "Unhandled key check operation"
    /\ last.opcode = Some(\hE09F)
    /\ program_counter = PROGRAM_START

\* C16: every run-time fatal error of the CPU (undefined instruction, stack
\* underflow) that stopped the run reports the instruction word and the
\* program counter it was fetched at: both are among the values formatted
\* into the panic message.
C16_FatalErrorReportsWordAndPc ==
    (/\ status = "panicked"
     /\ panic_msg \in {"Stack underflow!",
                       "Unhandled machine code routine instruction",
                       "Unhandled register operation",
                       "Unhandled key check operation"}) =>
       /\ \E i \in DOMAIN panic_args : panic_args[i] = last.opcode[1]
       /\ \E i \in DOMAIN panic_args : panic_args[i] = last.pc

\* The step is a direct call of write_u16 / read_u16.
IsWriteU16 == mmu_last'.calls = mmu_last.calls + 1 /\ mmu_last'.call = "write_u16"
IsReadU16 == mmu_last'.calls = mmu_last.calls + 1 /\ mmu_last'.call = "read_u16"

\* The memories m1 and m2 hold the same byte at every address outside S.
SameBytesExcept(m1, m2, S) ==
    \A a \in ((DOMAIN m1) \cup (DOMAIN m2)) \ S : ByteAt(m1, a) = ByteAt(m2, a)

\* The call read / wrote the word most-significant byte first at address and
\* at second, and succeeded.
AccessedAt(second) ==
    LET address == mmu_last'.address
    IN /\ status' = "created"
       /\ IsReadU16 =>
            mmu_last'.result =
              Some(ByteAt(memory, address) * 256 + ByteAt(memory, second))
       /\ IsWriteU16 =>
            /\ ByteAt(memory', address) = mmu_last'.data \div 256
            /\ ByteAt(memory', second) = mmu_last'.data % 256

C18_U16PanicsAtEnd ==
    [][ ((IsReadU16 \/ IsWriteU16) /\ mmu_last'.address = MEM_SIZE - 1) =>
          /\ status' = "panicked"
          /\ mmu_last'.result = None
          /\ ByteAt(memory', 0) = ByteAt(memory, 0)
      ]_vars

\* C19: for any address addr < 4095 and any word w, read_u16(addr) right
\* after write_u16(addr, w) returns w, and the write changes no byte other
\* than those at addr and addr + 1.
C19_U16RoundTrip ==
    [][ /\ (IsWriteU16 /\ mmu_last'.address < MEM_SIZE - 1) =>
             SameBytesExcept(memory, memory',
                             {mmu_last'.address, mmu_last'.address + 1})
        /\ (IsReadU16 /\ mmu_last.call = "write_u16"
            /\ mmu_last'.address = mmu_last.address
            /\ mmu_last.address < MEM_SIZE - 1) =>
             mmu_last'.result = Some(mmu_last.data)
      ]_vars

\* 0xFE12 was written at 0x1FF and read back from there.
C19_Witness ==
    /\ mmu_last.call = "read_u16" /\ mmu_last.address = PROGRAM_START - 1
    /\ mmu_last.calls = 2
    /\ mmu_last.result = Some(\hFE12)
    /\ ByteAt(memory, PROGRAM_START - 1) = \hFE
    /\ ByteAt(memory, PROGRAM_START) = \h12

\* C20: a program of any length len <= 3584 loads successfully, afterwards
\* memory[0x200 + i] is byte i of the file for all i < len and every byte
\* outside [0x200, 0x200 + len) is unchanged; a program of 3585 bytes or more
\* fails with an error returned to the caller, not a panic.
C20_LoadProgramBoundary ==
    [][ (status = "created" /\ last'.step = "load") =>
          IF Len(file) <= 3584
          THEN /\ status' = "running"
               /\ \A i \in 0..(Len(file) - 1) :
                    ByteAt(memory', 512 + i) = file[i + 1]
               /\ SameBytesExcept(memory, memory',
                                  512..(512 + Len(file) - 1))
          ELSE status' = "load_error"
      ]_vars

\* A 3584-byte file was loaded over memory in which 0xFE12 had been written
\* at 0x1FF: byte 0x1FF is kept, bytes 0x200, 0x201 and 0xFFF are the file's.
C20_Witness ==
    /\ status = "running" /\ last.step = "load"
    /\ Len(file) = 3584
    /\ mmu_last.call = "write_u16" /\ mmu_last.address = 511
    /\ mmu_last.data = \hFE12
    /\ ByteAt(memory, 511) = \hFE
    /\ ByteAt(memory, 512) = \h13 /\ ByteAt(memory, 513) = \hAB
    /\ ByteAt(memory, 4095) = \hEE

\* The memory holds glyph g of the font table at 5*g for the 16 glyphs and 0
\* from 80 up to PROGRAM_START.
FontIntact(mem) ==
    /\ \A g \in 0..15 : \A r \in 0..4 :
          ByteAt(mem, 5 * g + r) = FONT_SET[5 * g + r + 1]
    /\ \A a \in 80..511 : ByteAt(mem, a) = 0

\* C21: a freshly created memory holds the 80-byte font table at 0..79,
\* glyph g at 5*g, and 0 in every other byte; load_program, whether it
\* succeeds or fails, changes no byte of 0..0x1FF; so after loading into a
\* fresh memory the font table is intact.
C21_FontTable ==
    [][ /\ (mmu_last.calls = 0 /\ status = "created") =>
             /\ FontIntact(memory)
             /\ \A a \in DOMAIN memory : a < 80
        /\ (status = "created" /\ last'.step = "load") =>
             \A a \in 0..511 : ByteAt(memory', a) = ByteAt(memory, a)
        /\ (mmu_last.calls = 0 /\ status = "created" /\ last'.step = "load") =>
             FontIntact(memory')
      ]_vars

\* The 3584-byte file was loaded into a fresh memory: glyph F still starts
\* at 75 and the byte before the program is still 0.
C21_Witness ==
    /\ status = "running" /\ last.step = "load" /\ mmu_last.calls = 0
    /\ Len(file) = 3584
    /\ ByteAt(memory, 75) = \hF0 /\ ByteAt(memory, 79) = \h80
    /\ ByteAt(memory, 511) = 0 /\ ByteAt(memory, 512) = \h13

\* C22: no memory access of a CPU cycle is out of range or faults: every
\* cycle completes its instruction fetch at PC, whatever PC is, and the
\* memory never holds a byte outside 0..4095.
C22_NoAccessFault ==
    [][ IsCycle =>
          /\ last'.opcode # None
          /\ panic_msg' # "attempt to add with overflow"
          /\ \A a \in DOMAIN memory' : a \in 0..(MEM_SIZE - 1)
      ]_vars

StepRow == ByteAt(memory, index)

StepPixels ==
    LET x == registers[StepX]
        y == registers[StepY]
    IN { x + k + y * WIDTH :
           k \in { j \in 0..7 : /\ (StepRow \div (2 ^ (7 - j))) % 2 = 1
                                /\ x + j < WIDTH
                                /\ y < HEIGHT } }

\* The step draws a non-zero one-row sprite on a blank display / draws it
\* again right after that draw.
IsFirstDraw ==
    /\ IsCycle /\ last'.opcode # None
    /\ last'.opcode[1] \div 4096 = 13 /\ last'.opcode[1] % 16 = 1
    /\ StepX # CARRY_REGISTER /\ StepY # CARRY_REGISTER
    /\ StepRow # 0
    /\ buffer = {}
    /\ last.opcode # last'.opcode

IsSecondDraw ==
    /\ IsCycle /\ last'.opcode # None
    /\ last'.opcode[1] \div 4096 = 13 /\ last'.opcode[1] % 16 = 1
    /\ StepX # CARRY_REGISTER /\ StepY # CARRY_REGISTER
    /\ StepRow # 0
    /\ last.step = "cycle" /\ last.opcode = last'.opcode
    /\ buffer = StepPixels

\* C24 as stated: for any origin (x, y) in 0..255 and any non-zero one-row
\* sprite, the first draw on a blank display returns no collision, the
\* second draw at the same origin returns a collision, and afterwards every
\* affected pixel is cleared again.
C24_DrawTwiceAnyOrigin ==
    [][ /\ IsFirstDraw =>
             /\ registers'[CARRY_REGISTER] = 0
             /\ buffer' = StepPixels
        /\ IsSecondDraw =>
             /\ registers'[CARRY_REGISTER] = 1
             /\ buffer' = {}
      ]_vars

\* C24, amended: the same, for origins at which at least one set bit of the
\* sprite lands on the 64 x 32 display; the display clips at its right and
\* bottom edges, so when every set bit is clipped nothing is drawn and both
\* draws return no collision.
C24_DrawTwice ==
    [][ /\ IsFirstDraw =>
             /\ registers'[CARRY_REGISTER] = 0
             /\ buffer' = StepPixels
        /\ IsSecondDraw =>
             /\ registers'[CARRY_REGISTER] = (IF StepPixels # {} THEN 1 ELSE 0)
             /\ buffer' = {}
      ]_vars

\* The row 0x81 was drawn twice at (57, 31): only its left bit is on the
\* display; the second draw collided and left the display blank.
C24_Witness ==
    /\ last.step = "cycle" /\ last.opcode = Some(\hD011) /\ last.pc = \h208
    /\ index = \h20B
    /\ registers[0] = 57 /\ registers[1] = 31
    /\ registers[CARRY_REGISTER] = 1
    /\ buffer = {}

\* C25: FX33 writes the digits h, t, u of v = VX to I, I+1, I+2 (modulo
\* 4096), each in 0..9 with 100*h + 10*t + u = v, and changes no register,
\* not the index register and no other byte of memory.
C25_BcdStore ==
    [][ CycleOf(15, \h33) =>
          LET v == registers[StepX]
              h == ByteAt(memory', index)
              t == ByteAt(memory', (index + 1) % 4096)
              u == ByteAt(memory', (index + 2) % 4096)
          IN /\ h \in 0..9 /\ t \in 0..9 /\ u \in 0..9
             /\ 100 * h + 10 * t + u = v
             /\ SameBytesExcept(memory, memory',
                                {index, (index + 1) % 4096, (index + 2) % 4096})
             /\ registers' = registers
             /\ index' = index
      ]_vars

\* V0 = 254 was stored at I = 0xFFF: 2 at 0xFFF, 5 at 0, 4 at 1.
C25_Witness ==
    /\ last.step = "cycle" /\ last.opcode = Some(\hF033)
    /\ index = \hFFF /\ registers[0] = 254
    /\ ByteAt(memory, \hFFF) = 2 /\ ByteAt(memory, 0) = 5
    /\ ByteAt(memory, 1) = 4 /\ ByteAt(memory, 2) = \h90

\* The addresses I, I+1, ..., I+X modulo 4096 of the dump or load the step
\* fetched.
StepRange == { (index + i) % 4096 : i \in 0..StepX }

\* C26: FX55 writes V0..VX, X included, in register order to I+i modulo 4096
\* and nothing else; FX65 loads V0..VX from the same addresses and changes no
\* register above X; neither changes the index register; FX65 right after
\* FX55 with the same X leaves V0..VX as they were at the dump.
C26_DumpLoad ==
    [][ /\ CycleOf(15, \h55) =>
             /\ \A i \in 0..StepX :
                  ByteAt(memory', (index + i) % 4096) = registers[i]
             /\ SameBytesExcept(memory, memory', StepRange)
             /\ registers' = registers
             /\ index' = index
        /\ CycleOf(15, \h65) =>
             /\ \A i \in 0..StepX :
                  registers'[i] = ByteAt(memory, (index + i) % 4096)
             /\ \A i \in (StepX + 1)..(REGISTER_SIZE - 1) :
                  registers'[i] = registers[i]
             /\ memory' = memory
             /\ index' = index
        /\ (CycleOf(15, \h65) /\ last.step = "cycle"
            /\ last.opcode = Some(last'.opcode[1] - \h10)) =>
             registers' = registers
      ]_vars

\* V0 = 0x0A and V1 = 0x50 were dumped to 0xFFF and 0, cleared, and loaded
\* back; V2 = 7 was not touched.
C26_Witness ==
    /\ last.step = "cycle" /\ last.opcode = Some(\hF165) /\ last.pc = \h20E
    /\ index = \hFFF
    /\ registers[0] = \h0A /\ registers[1] = \h50 /\ registers[2] = 7
    /\ ByteAt(memory, \hFFF) = \h0A /\ ByteAt(memory, 0) = \h50
    /\ ByteAt(memory, 1) = \h90

\* C27: FX1E sets I = (I + VX) mod 4096 and changes no register, VF
\* included, also when the sum exceeds 0xFFF.
C27_IndexAdd ==
    [][ CycleOf(15, \h1E) =>
          /\ index' = (index + registers[StepX]) % 4096
          /\ registers' = registers
      ]_vars

\* 0xFFF + 0x02 wrapped to I = 1 and VF is still 1.
C27_Witness ==
    /\ last.step = "cycle" /\ last.opcode = Some(\hF01E)
    /\ registers[0] = 2 /\ index = 1
    /\ registers[CARRY_REGISTER] = 1

\* C28: BNNN sets PC = (NNN + V0) mod 4096, V0 taken as a full byte, pushes
\* nothing on the call stack and changes no register.
C28_JumpWithOffset ==
    [][ (IsCycle /\ last'.opcode # None /\ last'.opcode[1] \div 4096 = 11) =>
          /\ program_counter' = ((last'.opcode[1] % 4096) + registers[0]) % 4096
          /\ stack' = stack
          /\ registers' = registers
          /\ index' = index
      ]_vars

\* BFFE with V0 = 0x13 jumped to 0x011; the stack still holds the one return
\* address.
C28_Witness ==
    /\ last.step = "cycle" /\ last.opcode = Some(\hBFFE)
    /\ registers[0] = \h13
    /\ program_counter = \h011
    /\ stack = << \h202 >>

\* C29: end to end, with the words 0x6A05 and 0x7A03 at 0x200 and 0x202 and
\* a fresh CPU, the first cycle fetches 0x6A05 and the second 0x7A03, and
\* after the second register 10 is 8, PC is 0x204 and every other register,
\* the index register, the timers and the call stack have their initial
\* values.
C29_LoadThenAdd ==
    [][ (IsCycle /\ file = AddImmediateProgram) =>
          /\ program_counter = 512 =>
               /\ last'.opcode = Some(\h6A05)
               /\ program_counter' = 514
               /\ registers' = [i \in 0..15 |-> IF i = 10 THEN 5 ELSE 0]
          /\ program_counter = 514 =>
               /\ last'.opcode = Some(\h7A03)
               /\ program_counter' = 516
               /\ registers' = [i \in 0..15 |-> IF i = 10 THEN 8 ELSE 0]
               /\ status' = "running"
          /\ program_counter \in {512, 514} =>
               /\ index' = 0
               /\ delay_timer' = 0 /\ sound_timer' = 0
               /\ stack' = << >>
      ]_vars

\* The second cycle of the two-word program has run.
C29_Witness ==
    /\ file = AddImmediateProgram
    /\ last.step = "cycle" /\ last.pc = 514
    /\ status = "running"
    /\ registers[10] = 8 /\ program_counter = 516

\* C30: on every wakeup of the timing driver exactly one instruction cycle
\* runs; the 60 Hz tick runs at most once per wakeup, only when the time
\* since the last-tick marker is at least 1/60 s, and before that wakeup's
\* cycle (and then it does run); the tick moves the marker on by exactly
\* 1/60 s, not to the current time.
C30_DriverOrdering ==
    [][ /\ driver'.at = "sleep" => driver'.cycles = (IF driver'.now = 0 THEN 0 ELSE 1)
        /\ driver'.cycles <= 1
        /\ driver'.ticks <= 1
        /\ driver'.ticks = driver.ticks + 1 =>
             /\ driver.now - driver.last_60hz >= TickPeriod
             /\ driver.cycles = 0
             /\ driver'.last_60hz = driver.last_60hz + TickPeriod
             /\ driver'.now = driver.now
             /\ last'.step = "tick"
        /\ driver'.cycles = driver.cycles + 1 =>
             /\ \/ driver.ticks = 1
                \/ driver.now - driver.last_60hz < TickPeriod
             /\ last'.step = "cycle"
             /\ driver'.last_60hz = driver.last_60hz
        /\ driver'.now # driver.now =>
             /\ driver.at = "sleep"
             /\ driver'.last_60hz = driver.last_60hz
             /\ UNCHANGED << registers, program_counter, delay_timer,
                             sound_timer, is_paused, last >>
      ]_vars

\* A wakeup that came 5 periods after the previous one has completed: it
\* ran one tick, which left the marker behind the current time, and then
\* one cycle.
C30_Witness ==
    /\ driver.at = "sleep" /\ driver.now = 5
    /\ driver.ticks = 1 /\ driver.cycles = 1
    /\ driver.last_60hz = 2
    /\ last.step = "cycle"

\* The machine is running with PC at a key-wait word FX0A.
AtKeyWait ==
    /\ status = "running"
    /\ ByteAt(memory, program_counter) \div 16 = 15
    /\ ByteAt(memory, (program_counter + 1) % MEM_SIZE) = \h0A

\* C31: a blocked key-wait is interleaved with 60 Hz ticks like any other
\* instruction.  While PC is held at FX0A, every tick takes 1 from each
\* timer that is > 0, issues play or pause by the sound timer, and leaves
\* the latch, PC and the registers alone; the cycles of the wait leave the
\* timers alone; and whatever the timers are and however many ticks ran, a
\* cycle of the wait holds PC until no key is down while one is latched, and
\* then stores the latched key in VX and advances PC by 2.
C31_KeyWaitWithTicks ==
    [][ /\ (IsTick /\ AtKeyWait) =>
             /\ delay_timer' = (IF delay_timer > 0 THEN delay_timer - 1 ELSE 0)
             /\ sound_timer' = (IF sound_timer > 0 THEN sound_timer - 1 ELSE 0)
             /\ last'.audio = (IF sound_timer > 0 THEN "play" ELSE "pause")
             /\ UNCHANGED << key_latch, program_counter, registers >>
        /\ CycleOf(15, \h0A) =>
             /\ UNCHANGED << delay_timer, sound_timer >>
             /\ IF last'.key = None /\ key_latch # None
                THEN /\ registers' = [registers EXCEPT ![StepX] = key_latch[1]]
                     /\ program_counter' = (program_counter + 2) % 4096
                ELSE /\ registers' = registers
                     /\ program_counter' = program_counter
      ]_vars

\* A wait that began with the timers at 3 and 2 resolved with key 8 after
\* two ticks had run between its cycles: the timers are 1 and 0, V4 = 8 and
\* PC moved on from 0x208.
C31_Witness ==
    /\ file = TimerKeyWaitProgram
    /\ last.step = "cycle" /\ last.opcode = Some(\hF40A) /\ last.key = None
    /\ last.wait_ticks = 2
    /\ delay_timer = 1 /\ sound_timer = 0
    /\ registers[4] = 8
    /\ program_counter = \h20A

\* The machine is running with PC at a word CXNN.
AtRandomWord ==
    /\ status = "running"
    /\ program_counter + 1 < MEM_SIZE
    /\ ByteAt(memory, program_counter) \div 16 = 12

\* C32: random-AND CXNN.  In every state about to run CXNN, for every byte
\* r the generator can return the instruction leaves VX with bit i set
\* exactly when it is set in both r and NN, every other register (VF
\* included when X is not 0xF) as it was and PC advanced by 2; and the cycle
\* that runs leaves VX without a bit outside NN (0 when NN = 0), the other
\* registers as they were and PC advanced by 2.
C32_RandomAnd ==
    /\ [](AtRandomWord =>
            LET x == ByteAt(memory, program_counter) % 16
                nn == ByteAt(memory, program_counter + 1)
            IN \A r \in Byte :
                 LET after == exec_opcode(\hC000 + 256 * x + nn, r)
                 IN /\ \A i \in 0..7 :
                         Bit(after.registers[x], i) = Bit(r, i) * Bit(nn, i)
                    /\ \A j \in 0..15 :
                         j # x => after.registers[j] = registers[j]
                    /\ after.next_pc = Some((program_counter + 2) % 4096)
                    /\ after.panic = "")
    /\ [][ (IsCycle /\ last'.opcode # None /\ last'.opcode[1] \div 4096 = 12) =>
             LET nn == last'.opcode[1] % 256
             IN /\ \A i \in 0..7 : Bit(registers'[StepX], i) <= Bit(nn, i)
                /\ nn = 0 => registers'[StepX] = 0
                /\ \A j \in 0..15 : j # StepX => registers'[j] = registers[j]
                /\ program_counter' = (program_counter + 2) % 4096
                /\ status' = "running"
         ]_vars

\* C0B5 drew a byte with every bit of the mask set: V0 = 0xB5, VF is still
\* 1 and PC moved to 0x204.
C32_Witness ==
    /\ last.step = "cycle" /\ last.opcode = Some(\hC0B5)
    /\ registers[0] = \hB5
    /\ registers[CARRY_REGISTER] = 1
    /\ program_counter = \h204

\* C33: a load_program that fails because the file is longer than 3584
\* bytes is atomic: it reports the error and every byte of memory is what it
\* was before the call.
C33_FailedLoadAtomic ==
    [][ (status = "created" /\ last'.step = "load" /\ Len(file) > 3584) =>
          /\ status' = "load_error"
          /\ \A a \in 0..4095 : ByteAt(memory', a) = ByteAt(memory, a)
      ]_vars

\* A 3585-byte file of 0xAA bytes was refused after 0xFE12 had been written
\* at 0x200: bytes 0x200 and 0x201 still hold the word and 0x202 and 0xFFF
\* are still 0.
C33_Witness ==
    /\ status = "load_error" /\ last.step = "load"
    /\ Len(file) = 3585 /\ file[1] = \hAA
    /\ mmu_last.call = "write_u16" /\ mmu_last.address = 512
    /\ mmu_last.data = \hFE12 /\ mmu_last.calls = 1
    /\ ByteAt(memory, 512) = \hFE /\ ByteAt(memory, 513) = \h12
    /\ ByteAt(memory, 514) = 0 /\ ByteAt(memory, 4095) = 0

\* C34: the key-latch invariant.  In every reachable state with a non-empty
\* latch the machine is running with PC at a key-wait word FX0A; a cycle of
\* any other instruction starts and ends with the latch empty; and the cycle
\* that consumes the latch is at the PC of the key-wait that held it in the
\* previous cycle, so no other key-wait consumes it.
C34_KeyLatchInvariant ==
    /\ [](key_latch # None => AtKeyWait)
    /\ [][ /\ (IsCycle /\ ~IsKeyWait(last'.opcode)) =>
                (key_latch = None /\ key_latch' = None)
           /\ (CycleOf(15, \h0A) /\ key_latch # None /\ key_latch' = None) =>
                /\ last.held
                /\ last.pc = program_counter
                /\ registers'[StepX] = key_latch[1]
         ]_vars

\* After the first key-wait stored key 8 in V4, the second one, at 0x202,
\* has latched key 5 and holds PC there.
C34_Witness ==
    /\ file = TwoKeyWaitProgram
    /\ status = "running"
    /\ registers[4] = 8
    /\ key_latch = Some(5)
    /\ program_counter = \h202
    /\ last.step = "cycle" /\ last.opcode = Some(\hF50A)

\* C35: after 8XY4, 8XY5 or 8XY7 VF is 0 or 1 for every X; when X is the
\* carry register itself the flag is written after the result, so VF ends
\* as the carry (8XY4: a + b > 255) or no-borrow flag (8XY5: a >= b, 8XY7:
\* b >= a) of a = VX, b = VY and the arithmetic result is stored nowhere.
C35_FlagWinsOverResult ==
    [][ (IsCycle /\ last'.opcode # None /\ last'.opcode[1] \div 4096 = 8
         /\ last'.opcode[1] % 16 \in {4, 5, 7}) =>
          LET a == registers[StepX]
              b == registers[StepY]
              n == last'.opcode[1] % 16
              flag == CASE n = 4 -> a + b > 255
                        [] n = 5 -> a >= b
                        [] n = 7 -> b >= a
          IN /\ registers'[15] \in {0, 1}
             /\ StepX = 15 =>
                  /\ registers'[15] = (IF flag THEN 1 ELSE 0)
                  /\ \A j \in 0..14 : registers'[j] = registers[j]
      ]_vars

\* 8F14 ran on VF = 2, V1 = 3: the sum 5 is gone and VF = 0, no carry.
C35_Witness ==
    /\ file = WordsToBytes(<< \h6F02, \hC1FF, \h8F14 >>)
    /\ last.step = "cycle" /\ last.opcode = Some(\h8F14)
    /\ registers[1] = 3
    /\ registers[15] = 0
    /\ status = "running"

\* C36: during one key-wait every cycle to which Input reports a key
\* overwrites the latch with that key, and the cycle to which Input reports
\* none stores in VX the key reported to the latest cycle that was given
\* one, which need not be the first key pressed.
C36_LastKeyWins ==
    [][ /\ (CycleOf(15, \h0A) /\ last'.key # None) =>
             /\ key_latch' = last'.key
             /\ registers' = registers
        /\ (CycleOf(15, \h0A) /\ last'.key = None /\ key_latch # None) =>
             /\ last.seen_key # None
             /\ registers'[StepX] = last.seen_key[1]
      ]_vars

\* A wait that latched key 5 first and was then given key 8 has resolved:
\* V4 = 8.
C36_Witness ==
    /\ file = KeyWaitProgram
    /\ last.step = "cycle" /\ last.opcode = Some(\hF40A) /\ last.key = None
    /\ last.first_key = Some(5)
    /\ last.seen_key = Some(8)
    /\ registers[4] = 8
    /\ key_latch = None
    /\ program_counter = \h202

\* C37: the frame of the 60 Hz tick.  A tick makes one audio call, play or
\* pause, and one render call, and changes nothing of the machine but the
\* delay timer and the sound timer: the 16 registers, the index register,
\* PC, the call stack, the key latch, memory and the display buffer are the
\* same after it as before.
C37_TickFrame ==
    [][ IsTick =>
          /\ last'.audio \in {"play", "pause"}
          /\ last'.render \in {"update", "exit"}
          /\ \A i \in 0..15 : registers'[i] = registers[i]
          /\ UNCHANGED << index, program_counter, stack, key_latch, memory,
                          buffer, is_dirty >>
      ]_vars

\* The first tick after the timer program set the timers to 60 and 2: it
\* played the audio and rendered, the timers are 59 and 1, and V0, V1 and
\* PC are as the program left them.
C37_Witness ==
    /\ file = TimerProgram
    /\ last.step = "tick" /\ last.audio = "play" /\ last.render = "update"
    /\ delay_timer = 59 /\ sound_timer = 1
    /\ registers[0] = 60 /\ registers[1] = 2
    /\ program_counter = \h208
    /\ status = "running"

====
